---- MODULE Spec2Model ----
(***************************************************************************)
(* A model of hud-remote-browser: the scenario generators, the provider    *)
(* adapters (BrowserBase, Steel), the session context with the initialize  *)
(* and shutdown paths of env.py and of server/main.py + environment/       *)
(* server.py, the action-memory wrapper and the evaluators.                *)
(*                                                                         *)
(* Each component has its own specification (SpecScenario, SpecProvider,   *)
(* SpecSession, SpecDetect, SpecWrapper, SpecEval).  They share one Init;  *)
(* the actions of a component leave the variables of the others unchanged. *)
(***************************************************************************)
EXTENDS Integers, Sequences, FiniteSets, TLC

VARIABLES
    \* ---- scenario generator (scenarios/general.py, scenarios/sheets.py)
    scIn,        \* the inputs of the running scenario (name, tool, arguments, helper outcomes)
    scPc,        \* where the generator is suspended
    scYields,    \* the values it has yielded so far, in order
    scReward     \* the reward it has yielded, or the error of its reward arithmetic

scenVars == <<scIn, scPc, scYields, scReward>>

VARIABLES
    \* ---- the vendor (the HTTP API behind providers/browserbase.py, providers/steel.py)
    vendorLive,  \* the sessions the vendor holds that are not terminated
    nextSid      \* the id the vendor gives to the next session it creates

vendorVars == <<vendorLive, nextSid>>

VARIABLES
    \* ---- one provider adapter (providers/browserbase.py, providers/steel.py)
    prov,        \* the adapter object: its configuration and _instance_id, _cdp_url, _is_running
    pvLast       \* the last adapter call: what it was given, what it did

provVars == <<prov, pvLast>>

VARIABLES
    \* ---- provider selection (env.py _detect_provider, server/main.py initialize_environment)
    environ,     \* os.environ: BROWSER_PROVIDER and the API-key variables that are set
    dtLast       \* the last selection: which code made it and what came out

detectVars == <<environ, dtLast>>

VARIABLES
    \* ---- session context and controllers (env.py, server/main.py, environment/server.py)
    deploy,      \* which entry point runs: env.py (attach_context) or server/main.py (HTTP)
    context,     \* RemoteBrowserContext: is_initialized, _telemetry, browser_provider
    providers,   \* the provider objects constructed so far, by reference
    unclosed,    \* the sessions launched on which no close() was called yet
    ctl          \* each controller process: where it is and its local variables

sessVars == <<deploy, context, providers, unclosed, ctl>>

VARIABLES
    \* ---- the retry loop that opens initialize_environment (env.py, server/main.py)
    loops        \* each controller's loop: position, attempt, passes made, seconds slept

attachVars == <<loops>>

VARIABLES
    \* ---- PlaywrightToolWithMemory (tools/browser.py)
    page,               \* self.page: no page, or the URL it shows
    action_history,     \* self.action_history
    navigation_history, \* self.navigation_history
    selector_history,   \* self.selector_history
    inflight,           \* the call on the tool that is awaiting the browser
    listeners           \* _ensure_browser calls made, and the page's "dialog" handlers

wrapVars == <<page, action_history, navigation_history, selector_history, inflight, listeners>>

VARIABLES
    \* ---- one evaluator call (evaluate/*.py)
    evIn,        \* the evaluator, the tool it is given and how the browser behaves
    evOut        \* how the call ended: the result returned, or the exception

evalVars == <<evIn, evOut>>

VARIABLES
    \* ---- the viewport of one BrowserBase launch (providers/browserbase.py)
    vpIn,        \* DISPLAY_WIDTH / DISPLAY_HEIGHT and the launch options
    vpOut        \* browser_settings["viewport"] of the request built

viewVars == <<vpIn, vpOut>>

VARIABLES
    \* ---- one parse_cell_reference call (evaluate/sheets_cell_values.py)
    prIn,        \* the cell reference, a sequence of characters
    prOut        \* what the call returned, or that it raised

parseVars == <<prIn, prOut>>

vars == <<scenVars, vendorVars, provVars, detectVars, sessVars, attachVars, wrapVars, evalVars, viewVars, parseVars>>

\* What the actions of one component leave unchanged.
notScenVars == <<vendorVars, provVars, detectVars, sessVars, attachVars, wrapVars, evalVars, viewVars, parseVars>>
notProvVars == <<scenVars, detectVars, sessVars, attachVars, wrapVars, evalVars, viewVars, parseVars>>
notDetectVars == <<scenVars, vendorVars, provVars, sessVars, attachVars, wrapVars, evalVars, viewVars, parseVars>>
notSessVars == <<scenVars, provVars, dtLast, attachVars, wrapVars, evalVars, viewVars, parseVars>>
notWrapVars == <<scenVars, vendorVars, provVars, detectVars, sessVars, attachVars, evalVars, viewVars, parseVars>>
notEvalVars == <<scenVars, vendorVars, provVars, detectVars, sessVars, attachVars, wrapVars, viewVars, parseVars>>
notAttachVars == <<scenVars, vendorVars, provVars, detectVars, sessVars, wrapVars, evalVars, viewVars, parseVars>>

notViewVars == <<scenVars, vendorVars, provVars, detectVars, sessVars, attachVars, wrapVars, evalVars, parseVars>>
notParseVars == <<scenVars, vendorVars, provVars, detectVars, sessVars, attachVars, wrapVars, evalVars, viewVars>>

None == "None"

(***************************************************************************)
(* Provider Adapter                                                        *)
(***************************************************************************)

ProviderKinds == {"browserbase", "steel"}

\* No session id, no endpoint (Python's None for _instance_id and _cdp_url).
NoId == 0

\* The most sessions the vendor creates in one run of the model.
MaxSessions == 3

SessionIds == 1..(MaxSessions + 1)

\* HTTP status codes the vendor answers with.
Statuses == {200, 204, 404, 500}

is_success(status) == status >= 200 /\ status < 300

\* The answer to one HTTP request: the call raises (timeout, connection
\* error), or the vendor answers with a status and, for create-session, a
\* body that holds an "id" and a "connectUrl" or lacks them.
NetworkError == [raises |-> TRUE, status |-> 500, id |-> FALSE, connectUrl |-> FALSE]

Responses ==
    {NetworkError} \cup
    [raises: {FALSE}, status: Statuses, id: BOOLEAN, connectUrl: BOOLEAN]

\* The adapter before its constructor has run.
NoProvider ==
    [kind |-> "steel", constructed |-> FALSE, api_key |-> FALSE, project_id |-> FALSE,
     instance_id |-> NoId, cdp_url |-> NoId, is_running |-> FALSE]

\* BrowserProvider.__init__: no instance, no endpoint, not running.
BrowserProvider_init(kind, config) ==
    [kind |-> kind, constructed |-> TRUE, api_key |-> config.api_key,
     project_id |-> config.project_id,
     instance_id |-> NoId, cdp_url |-> NoId, is_running |-> FALSE]

\* What an adapter call does: the adapter afterwards, whether it raised, what
\* it returned, whether it sent a request, and what the vendor did.
Outcome(a, raised, ret, sent, created, terminated) ==
    [adapter |-> a, raised |-> raised, ret |-> ret, sent |-> sent,
     created |-> created, terminated |-> terminated]

\* __init__ of both adapters: raises ValueError when there is no API key.
Provider_construct(old, kind, config) ==
    IF ~config.api_key
    THEN Outcome(old, TRUE, NoId, FALSE, FALSE, FALSE)
    ELSE Outcome(BrowserProvider_init(kind, config), FALSE, NoId, FALSE, FALSE, FALSE)

\* BrowserBaseProvider.launch.  sid is the id the vendor gives the session.
BrowserBaseProvider_launch(a, resp, sid) ==
    IF ~a.project_id
    THEN Outcome(a, TRUE, NoId, FALSE, FALSE, FALSE)
    ELSE IF resp.raises \/ ~is_success(resp.status)
    THEN Outcome(a, TRUE, NoId, TRUE, FALSE, FALSE)
    ELSE IF ~resp.id
    THEN Outcome([a EXCEPT !.instance_id = NoId], TRUE, NoId, TRUE, FALSE, FALSE)
    ELSE IF ~resp.connectUrl
    THEN Outcome([a EXCEPT !.instance_id = sid, !.cdp_url = NoId],
                 TRUE, NoId, TRUE, TRUE, FALSE)
    ELSE Outcome([a EXCEPT !.instance_id = sid, !.cdp_url = sid, !.is_running = TRUE],
                 FALSE, sid, TRUE, TRUE, FALSE)

\* A launch that does not check the status of the create-session answer.
SteelProvider_launch_unchecked(a, resp, sid) ==
    IF resp.raises
    THEN Outcome(a, TRUE, NoId, TRUE, FALSE, FALSE)
    ELSE IF ~resp.id
    THEN Outcome([a EXCEPT !.instance_id = NoId], TRUE, NoId, TRUE, FALSE, FALSE)
    ELSE Outcome([a EXCEPT !.instance_id = sid, !.cdp_url = sid, !.is_running = TRUE],
                 FALSE, sid, TRUE, is_success(resp.status), FALSE)

\* SteelProvider.launch: the endpoint is built from the API key and the id.
SteelProvider_launch(a, resp, sid) ==
    IF resp.raises \/ ~is_success(resp.status)
    THEN Outcome(a, TRUE, NoId, TRUE, FALSE, FALSE)
    ELSE IF ~resp.id
    THEN Outcome([a EXCEPT !.instance_id = NoId], TRUE, NoId, TRUE, FALSE, FALSE)
    ELSE Outcome([a EXCEPT !.instance_id = sid, !.cdp_url = sid, !.is_running = TRUE],
                 FALSE, sid, TRUE, TRUE, FALSE)

Provider_launch(a, resp, sid) ==
    IF a.kind = "browserbase"
    THEN BrowserBaseProvider_launch(a, resp, sid)
    ELSE SteelProvider_launch(a, resp, sid)

\* The finally block of close().
Cleared(a) == [a EXCEPT !.is_running = FALSE, !.cdp_url = NoId, !.instance_id = NoId]

\* A close whose cleanup runs only after an acknowledged teardown.
BrowserBaseProvider_close_no_finally(a, resp) ==
    IF a.instance_id = NoId
    THEN Outcome(a, FALSE, NoId, FALSE, FALSE, FALSE)
    ELSE IF resp.raises
    THEN Outcome(a, FALSE, NoId, TRUE, FALSE, FALSE)
    ELSE Outcome(IF resp.status \in {200, 201, 204, 404} THEN Cleared(a) ELSE a,
                 FALSE, NoId, TRUE, FALSE, is_success(resp.status))

\* A close that sends its request whether or not it holds an instance id.
BrowserBaseProvider_close_unguarded(a, resp) ==
    Outcome(Cleared(a), FALSE, NoId, TRUE, FALSE, ~resp.raises /\ is_success(resp.status))

\* BrowserBaseProvider.close: PATCH REQUEST_RELEASE; any status is only
\* logged, an exception is swallowed, the state is cleared in finally.
BrowserBaseProvider_close(a, resp) ==
    IF a.instance_id = NoId
    THEN Outcome(a, FALSE, NoId, FALSE, FALSE, FALSE)
    ELSE Outcome(Cleared(a), FALSE, NoId, TRUE, FALSE,
                 ~resp.raises /\ is_success(resp.status))

\* SteelProvider.close: DELETE; raise_for_status unless 404, caught by the
\* except clause; the state is cleared in finally.
SteelProvider_close(a, resp) ==
    IF a.instance_id = NoId
    THEN Outcome(a, FALSE, NoId, FALSE, FALSE, FALSE)
    ELSE Outcome(Cleared(a), FALSE, NoId, TRUE, FALSE,
                 ~resp.raises /\ is_success(resp.status))

Provider_close(a, resp) ==
    IF a.kind = "browserbase"
    THEN BrowserBaseProvider_close(a, resp)
    ELSE SteelProvider_close(a, resp)

\* The answers the vendor can give to a terminate request for session sid: it
\* acknowledges only a session it holds and answers 404 only for one it does
\* not hold; it may fail, and the call may raise, in either case.
CloseResponses(sid, live) ==
    {r \in Responses :
        /\ ~r.id /\ ~r.connectUrl
        /\ ~r.raises /\ is_success(r.status) => sid \in live
        /\ ~r.raises /\ r.status = 404 => sid \notin live}

\* The record of the last adapter call.  before: the adapter when it was
\* called; api_key: the key the constructor was given; resp: the vendor's
\* answer; active: the vendor held the adapter's session when close was called.
NoCall ==
    [op |-> "none", before |-> NoProvider, api_key |-> FALSE, resp |-> NetworkError,
     raised |-> FALSE, ret |-> NoId, sent |-> FALSE, active |-> FALSE]

Call(op, before, api_key, resp, out, active) ==
    [op |-> op, before |-> before, api_key |-> api_key, resp |-> resp,
     raised |-> out.raised, ret |-> out.ret, sent |-> out.sent, active |-> active]

InitProvider ==
    /\ prov = NoProvider
    /\ vendorLive = {}
    /\ nextSid = 1
    /\ pvLast = NoCall

\* provider_class(provider_config)
ProviderConstruct ==
    /\ \E kind \in ProviderKinds, config \in [api_key: BOOLEAN, project_id: BOOLEAN] :
          /\ kind = "steel" => ~config.project_id
          /\ LET out == Provider_construct(prov, kind, config) IN
                /\ prov' = out.adapter
                /\ pvLast' = Call("construct", prov, config.api_key, NetworkError, out, FALSE)
    /\ UNCHANGED vendorVars
    /\ UNCHANGED notProvVars

\* await browser_provider.launch(**launch_options)
ProviderLaunch ==
    /\ prov.constructed
    /\ nextSid <= MaxSessions
    /\ \E resp \in Responses :
          LET out == Provider_launch(prov, resp, nextSid) IN
             /\ prov' = out.adapter
             /\ vendorLive' = IF out.created THEN vendorLive \cup {nextSid} ELSE vendorLive
             /\ nextSid' = IF out.created THEN nextSid + 1 ELSE nextSid
             /\ pvLast' = Call("launch", prov, prov.api_key, resp, out, FALSE)
    /\ UNCHANGED notProvVars

\* provider.close()
ProviderClose ==
    /\ prov.constructed
    /\ \E resp \in CloseResponses(prov.instance_id, vendorLive) :
          LET out == Provider_close(prov, resp) IN
             /\ prov' = out.adapter
             /\ vendorLive' = IF out.terminated
                              THEN vendorLive \ {prov.instance_id} ELSE vendorLive
             /\ pvLast' = Call("close", prov, prov.api_key, resp, out, prov.instance_id \in vendorLive)
    /\ UNCHANGED nextSid
    /\ UNCHANGED notProvVars

\* The vendor ends a session on its own (session timeout, idle timeout).
VendorExpire ==
    /\ \E sid \in vendorLive : vendorLive' = vendorLive \ {sid}
    /\ UNCHANGED <<prov, nextSid, pvLast>>
    /\ UNCHANGED notProvVars

NextProvider == ProviderConstruct \/ ProviderLaunch \/ ProviderClose \/ VendorExpire


(***************************************************************************)
(* Provider selection                                                      *)
(***************************************************************************)

\* Provider detection priority (first available wins).
PROVIDER_PRIORITY ==
    << [var |-> "ANCHOR_API_KEY", name |-> "anchorbrowser"],
       [var |-> "STEEL_API_KEY", name |-> "steel"],
       [var |-> "BROWSERBASE_API_KEY", name |-> "browserbase"],
       [var |-> "HYPERBROWSER_API_KEY", name |-> "hyperbrowser"],
       [var |-> "KERNEL_API_KEY", name |-> "kernel"] >>

ApiKeyVars == {PROVIDER_PRIORITY[i].var : i \in 1..Len(PROVIDER_PRIORITY)}

\* Values of BROWSER_PROVIDER: unset (""), or a provider name in some case.
ProviderOverrides == {"", "steel", "Steel", "BROWSERBASE", "kernel"}

\* str.lower() on the values above and on the words of a searched text.
lower(str) ==
    CASE str = "Steel" -> "steel"
      [] str = "BROWSERBASE" -> "browserbase"
      [] str = "Total" -> "total"
      [] str = "Sum" -> "sum"
      [] OTHER -> str

Selected(name) == [raised |-> FALSE, name |-> name]
ConfigurationError == [raised |-> TRUE, name |-> ""]

\* A detection in which the last API key found wins.
detect_provider_last_wins(env) ==
    LET explicit == lower(env.BROWSER_PROVIDER)
        found == {i \in 1..Len(PROVIDER_PRIORITY) : PROVIDER_PRIORITY[i].var \in env.keys}
    IN  IF explicit # "" THEN Selected(explicit)
        ELSE IF found = {} THEN ConfigurationError
        ELSE Selected(PROVIDER_PRIORITY[CHOOSE i \in found : \A j \in found : j <= i].name)

\* env.py _detect_provider: the override if set, else the provider of the
\* first API-key variable of PROVIDER_PRIORITY that is set, else ValueError.
detect_provider(env) ==
    LET explicit == lower(env.BROWSER_PROVIDER)
        found == {i \in 1..Len(PROVIDER_PRIORITY) : PROVIDER_PRIORITY[i].var \in env.keys}
    IN  IF explicit # "" THEN Selected(explicit)
        ELSE IF found = {} THEN ConfigurationError
        ELSE Selected(PROVIDER_PRIORITY[CHOOSE i \in found : \A j \in found : i <= j].name)

\* server/main.py: BROWSER_PROVIDER is required; no key is looked at.
main_provider_name(env) ==
    IF env.BROWSER_PROVIDER = "" THEN ConfigurationError
    ELSE Selected(lower(env.BROWSER_PROVIDER))

NoEnviron == [BROWSER_PROVIDER |-> "", keys |-> {}]

NoSelection == [by |-> "none", raised |-> FALSE, name |-> ""]

InitDetect ==
    /\ environ = NoEnviron
    /\ dtLast = NoSelection

\* The process is started with some environment.
SetEnviron ==
    /\ \E o \in ProviderOverrides, ks \in SUBSET ApiKeyVars :
          environ' = [BROWSER_PROVIDER |-> o, keys |-> ks]
    /\ dtLast' = NoSelection
    /\ UNCHANGED notDetectVars

\* env.py: provider_name = _detect_provider()
DetectProvider ==
    /\ dtLast.by = "none"
    /\ LET r == detect_provider(environ) IN
          dtLast' = [by |-> "env.py", raised |-> r.raised, name |-> r.name]
    /\ UNCHANGED environ
    /\ UNCHANGED notDetectVars

\* server/main.py: provider_name = os.getenv("BROWSER_PROVIDER")
MainProviderName ==
    /\ dtLast.by = "none"
    /\ LET r == main_provider_name(environ) IN
          dtLast' = [by |-> "main.py", raised |-> r.raised, name |-> r.name]
    /\ UNCHANGED environ
    /\ UNCHANGED notDetectVars

NextDetect == SetEnviron \/ DetectProvider \/ MainProviderName


(***************************************************************************)
(* The retry loop of initialize_environment                                *)
(***************************************************************************)

Controllers == {"c1", "c2"}

max_retries == 10

\* Seconds.
retry_delay == 1

\* The loop before it is entered.  pc: "idle", "loop", "connected" (break),
\* "raised" (the last exception re-raised), "exhausted" (range(max_retries)
\* ran out with neither); attempt: the loop variable; tries: passes made;
\* slept: seconds spent in asyncio.sleep; last: how the last pass ended.
IdleLoop ==
    [pc |-> "idle", attempt |-> 0, tries |-> 0, slept |-> 0, last |-> "none"]

\* A retry condition that also sleeps after the last attempt.
ShouldRetryOffByOne(attempt) == attempt < max_retries

\* if attempt < max_retries - 1: sleep and retry, else raise
ShouldRetry(attempt) == attempt < max_retries - 1

InitAttach == loops = [c \in Controllers |-> IdleLoop]

\* initialize_environment is entered: for attempt in range(max_retries)
AttachBegin(c) ==
    /\ loops[c].pc = "idle"
    /\ loops' = [loops EXCEPT ![c] = [IdleLoop EXCEPT !.pc = "loop"]]
    /\ UNCHANGED notAttachVars

\* One pass of the loop: attach_context(...) or GET /health succeeds and
\* breaks; or it fails and the loop sleeps retry_delay and goes on; or it
\* fails and the exception is re-raised.
AttachPass(c) ==
    /\ loops[c].pc = "loop"
    /\ \E ok \in BOOLEAN :
          loops' = [loops EXCEPT ![c] =
             IF ok
             THEN [@ EXCEPT !.pc = "connected", !.tries = @ + 1, !.last = "ok"]
             ELSE IF ShouldRetry(loops[c].attempt)
             THEN [@ EXCEPT !.tries = @ + 1, !.last = "failed",
                            !.slept = @ + retry_delay,
                            !.attempt = @ + 1,
                            !.pc = IF loops[c].attempt + 1 < max_retries
                                   THEN "loop" ELSE "exhausted"]
             ELSE [@ EXCEPT !.pc = "raised", !.tries = @ + 1, !.last = "failed"]]
    /\ UNCHANGED notAttachVars

\* The controller process is started again.
AttachAgain(c) ==
    /\ loops[c].pc \in {"connected", "raised", "exhausted"}
    /\ loops' = [loops EXCEPT ![c] = IdleLoop]
    /\ UNCHANGED notAttachVars

NextAttach ==
    \E c \in Controllers : AttachBegin(c) \/ AttachPass(c) \/ AttachAgain(c)


(***************************************************************************)
(* Session Context, initialize and shutdown                                *)
(***************************************************************************)

\* The most provider objects constructed in one run of the model.
MaxProviders == 2

ProviderRefs == 1..MaxProviders

\* No provider object (Python's None for browser_provider).
NoRef == 0

\* The process environments the session model is deployed with.
SessionEnvirons ==
    { [BROWSER_PROVIDER |-> "", keys |-> {"BROWSERBASE_API_KEY", "BROWSERBASE_PROJECT_ID"}],
      [BROWSER_PROVIDER |-> "Steel", keys |-> {"STEEL_API_KEY"}] }

\* _get_provider_config(provider_name), and the same lines of main.py.
get_provider_config(provider_name, env) ==
    [api_key |-> \E i \in 1..Len(PROVIDER_PRIORITY) :
                    /\ PROVIDER_PRIORITY[i].name = provider_name
                    /\ PROVIDER_PRIORITY[i].var \in env.keys,
     project_id |-> provider_name = "browserbase" /\ "BROWSERBASE_PROJECT_ID" \in env.keys]

\* RemoteBrowserContext._telemetry: None, or the record stored at launch.
NoTelemetry == [set |-> FALSE, cdp_url |-> NoId]
\* A launch whose telemetry is not kept.
Telemetry_dropped(cdp_url) == [set |-> FALSE, cdp_url |-> NoId]

Telemetry(cdp_url) == [set |-> TRUE, cdp_url |-> cdp_url]

\* RemoteBrowserContext.__init__
RemoteBrowserContext ==
    [is_initialized |-> FALSE, telemetry |-> NoTelemetry, browser_provider |-> NoRef]

\* RemoteBrowserContext.get_cdp_url
get_cdp_url(cx) == IF cx.telemetry.set THEN cx.telemetry.cdp_url ELSE NoId

\* RemoteBrowserContext.get_telemetry: the stored record, whose status is
\* "running", or the synthesized one.
get_telemetry(cx) ==
    IF cx.telemetry.set
    THEN [status |-> "running", cdp_url |-> cx.telemetry.cdp_url]
    ELSE [status |-> "not_initialized", cdp_url |-> NoId]

\* A controller process before initialize_environment has run.  attached:
\* persistent_ctx / http_client is set; saw: the value of is_initialized it read; ref: its browser_provider;
\* cdp_url: its local cdp_url; tool: the endpoint its playwright_tool is
\* connected to; via: initialize_environment, or a direct POST /initialize;
\* tool_error: playwright_tool.close() raised in the shutdown under way.
IdleController ==
    [pc |-> "idle", attached |-> FALSE, saw |-> FALSE, ref |-> NoRef,
     cdp_url |-> NoId, tool |-> NoId, via |-> "initialize_environment",
     tool_error |-> FALSE]

\* An initialization that raised: its locals are gone, no tool is registered.
Failed(ct) ==
    [IdleController EXCEPT !.pc = "failed", !.attached = ct.attached]

\* An initialization that returned: its locals are gone, the tool stays.
Ready(ct) ==
    [IdleController EXCEPT !.pc = "ready", !.attached = ct.attached, !.tool = ct.tool]

\* The launch answers the session model distinguishes.
SessionResponses ==
    {r \in Responses : r.raises \/ (r.status = 200 /\ (r.connectUrl => r.id))}

\* An initialization that launches whatever is_initialized says.
NeedsLaunchAlways(is_initialized) == TRUE

\* if not persistent_ctx.get_is_initialized() / if not state["is_initialized"]
NeedsLaunch(is_initialized) == ~is_initialized

InitSession ==
    /\ deploy = "none"
    /\ context = RemoteBrowserContext
    /\ providers = [o \in ProviderRefs |-> NoProvider]
    /\ unclosed = {}
    /\ ctl = [c \in Controllers |-> IdleController]

\* The environment is deployed with one of the two entry points.
Deploy ==
    /\ deploy = "none"
    /\ deploy' \in {"env.py", "main.py"}
    /\ environ' \in SessionEnvirons
    /\ UNCHANGED <<context, providers, unclosed, ctl>>
    /\ UNCHANGED <<vendorVars, notSessVars>>

\* initialize_environment is entered (main.py creates http_client here).
InitializeBegin(c) ==
    /\ deploy # "none"
    /\ ctl[c].pc = "idle"
    /\ ctl' = [ctl EXCEPT ![c] =
                  [IdleController EXCEPT !.pc = "attach",
                                         !.attached = deploy = "main.py" \/ ctl[c].attached]]
    /\ UNCHANGED <<deploy, environ, context, providers, unclosed>>
    /\ UNCHANGED <<vendorVars, notSessVars>>

\* The retry loop as a whole (AttachPass takes it pass by pass): it ends
\* with persistent_ctx / a healthy server, or it raises.
AttachContext(c) ==
    /\ ctl[c].pc = "attach"
    /\ \E ok \in BOOLEAN :
          ctl' = [ctl EXCEPT ![c] =
                     IF ok THEN [@ EXCEPT !.pc = "check", !.attached = TRUE]
                     ELSE Failed(@)]
    /\ UNCHANGED <<deploy, environ, context, providers, unclosed>>
    /\ UNCHANGED <<vendorVars, notSessVars>>

\* persistent_ctx.get_is_initialized() / GET /state
CheckInitialized(c) ==
    /\ ctl[c].pc = "check"
    /\ ctl' = [ctl EXCEPT ![c] =
                  [@ EXCEPT !.saw = context.is_initialized,
                            !.pc = IF NeedsLaunch(context.is_initialized)
                                   THEN "construct" ELSE "reuse"]]
    /\ UNCHANGED <<deploy, environ, context, providers, unclosed>>
    /\ UNCHANGED <<vendorVars, notSessVars>>

\* A client posts /initialize to the environment server without asking /state.
DirectInitialize(c) ==
    /\ deploy = "main.py"
    /\ ctl[c].pc = "idle"
    /\ ctl' = [ctl EXCEPT ![c] = [IdleController EXCEPT !.pc = "construct", !.via = "direct",
                                                       !.attached = TRUE]]
    /\ UNCHANGED <<deploy, environ, context, providers, unclosed>>
    /\ UNCHANGED <<vendorVars, notSessVars>>

\* The provider names an initialization may come with: the one env.py
\* detects, the one main.py reads, or the one a direct request names.
ProviderSelections(c) ==
    IF ctl[c].via = "direct" THEN {Selected(k) : k \in ProviderKinds}
    ELSE IF deploy = "env.py" THEN {detect_provider(environ)}
    ELSE {main_provider_name(environ)}

\* The provider is selected and constructed and stored in the context
\* (env.py set_browser_provider; server.py context.browser_provider = ...).
\* A configuration error ends the initialization.
ConstructProvider(c) ==
    /\ ctl[c].pc = "construct"
    /\ \E sel \in ProviderSelections(c), o \in ProviderRefs :
          /\ ~providers[o].constructed
          /\ \A q \in ProviderRefs : q < o => providers[q].constructed
          /\ LET config == IF ctl[c].via = "direct"
                           THEN [api_key |-> TRUE, project_id |-> TRUE]
                           ELSE get_provider_config(sel.name, environ)
                 out == Provider_construct(NoProvider, sel.name, config)
             IN IF sel.raised \/ out.raised
                THEN /\ ctl' = [ctl EXCEPT ![c] = Failed(@)]
                     /\ UNCHANGED <<context, providers>>
                ELSE /\ providers' = [providers EXCEPT ![o] = out.adapter]
                     /\ context' = [context EXCEPT !.browser_provider = o]
                     /\ ctl' = [ctl EXCEPT ![c] = [@ EXCEPT !.pc = "launch", !.ref = o]]
    /\ UNCHANGED <<deploy, environ, unclosed>>
    /\ UNCHANGED <<vendorVars, notSessVars>>

\* await browser_provider.launch(**launch_options) and what follows it without
\* a suspension: env.py stores the telemetry; server.py stores the telemetry
\* and sets is_initialized.
LaunchBrowser(c) ==
    /\ ctl[c].pc = "launch"
    /\ nextSid <= MaxSessions
    /\ \E resp \in SessionResponses :
          LET o == ctl[c].ref
              out == Provider_launch(providers[o], resp, nextSid)
          IN /\ providers' = [providers EXCEPT ![o] = out.adapter]
             /\ vendorLive' = IF out.created THEN vendorLive \cup {nextSid} ELSE vendorLive
             /\ unclosed' = IF out.created THEN unclosed \cup {nextSid} ELSE unclosed
             /\ nextSid' = IF out.created THEN nextSid + 1 ELSE nextSid
             /\ IF out.raised
                THEN /\ ctl' = [ctl EXCEPT ![c] = Failed(@)]
                     /\ UNCHANGED context
                ELSE /\ context' = [context EXCEPT
                                       !.telemetry = Telemetry(out.ret),
                                       !.is_initialized = deploy = "main.py" \/ @]
                     /\ ctl' = [ctl EXCEPT ![c] =
                                   IF ctl[c].via = "direct" THEN Ready(@)
                                   ELSE [@ EXCEPT !.cdp_url = out.ret, !.pc = "connect"]]
    /\ UNCHANGED <<deploy, environ>>
    /\ UNCHANGED notSessVars

\* Reusing existing browser session: get_cdp_url() / GET /cdp_url; no
\* endpoint is a ValueError / a 404.
ReuseSession(c) ==
    /\ ctl[c].pc = "reuse"
    /\ ctl' = [ctl EXCEPT ![c] =
                  IF get_cdp_url(context) = NoId
                  THEN Failed(@)
                  ELSE [@ EXCEPT !.pc = "connect", !.cdp_url = get_cdp_url(context)]]
    /\ UNCHANGED <<deploy, environ, context, providers, unclosed>>
    /\ UNCHANGED <<vendorVars, notSessVars>>

\* PlaywrightToolWithMemory(cdp_url=cdp_url), _ensure_browser(), tools
\* registered; the connection fails when the session is gone and may fail
\* otherwise.
ConnectPlaywright(c) ==
    /\ ctl[c].pc = "connect"
    /\ \E ok \in BOOLEAN :
          /\ ok => ctl[c].cdp_url \in vendorLive
          /\ ctl' = [ctl EXCEPT ![c] =
                        IF ok THEN [@ EXCEPT !.pc = "finish", !.tool = ctl[c].cdp_url]
                        ELSE Failed(@)]
    /\ UNCHANGED <<deploy, environ, context, providers, unclosed>>
    /\ UNCHANGED <<vendorVars, notSessVars>>

\* The end of initialize_environment: env.py reads is_initialized again and,
\* if it is unset, navigates to BROWSER_URL and calls set_initialized(True).
FinishInitialize(c) ==
    /\ ctl[c].pc = "finish"
    /\ context' = IF deploy = "env.py" THEN [context EXCEPT !.is_initialized = TRUE]
                  ELSE context
    /\ ctl' = [ctl EXCEPT ![c] = Ready(@)]
    /\ UNCHANGED <<deploy, environ, providers, unclosed>>
    /\ UNCHANGED <<vendorVars, notSessVars>>

\* A shutdown that goes to the provider without closing the tool.
close_tool_skipped(ct, raised, left) == [ct EXCEPT !.pc = "shutdown"]

\* The first try block of shutdown_environment: playwright_tool.close()
\* returns and the tool is disconnected, or it raises, which is logged; the
\* close of the base class is not part of this repository, so a close that
\* raised has left the connection open or not.
close_tool(ct, raised, left) ==
    [ct EXCEPT !.pc = "shutdown",
               !.tool = IF raised /\ left THEN @ ELSE NoId,
               !.tool_error = raised]

\* env.py shutdown_environment, first half: await playwright_tool.close();
\* an error is logged and the function goes on either way.
ShutdownTool(c) ==
    /\ deploy = "env.py"
    /\ ctl[c].pc \in {"ready", "failed"}
    /\ \E raised \in BOOLEAN, left \in BOOLEAN :
          /\ raised => ctl[c].tool # NoId
          /\ left => raised
          /\ ctl' = [ctl EXCEPT ![c] = close_tool(@, raised, left)]
    /\ UNCHANGED <<deploy, environ, context, providers, unclosed>>
    /\ UNCHANGED <<vendorVars, notSessVars>>

\* provider.close() on the provider of the context.
ShutdownClose(resp) ==
    LET o == context.browser_provider
        out == Provider_close(providers[o], resp)
    IN /\ providers' = [providers EXCEPT ![o] = out.adapter]
       /\ unclosed' = unclosed \ {providers[o].instance_id}
       /\ vendorLive' = IF out.terminated
                        THEN vendorLive \ {providers[o].instance_id} ELSE vendorLive

\* A shutdown whose globals are cleared only when nothing went wrong.
shutdown_finally_on_success(ct, entry, err) ==
    IF err THEN [ct EXCEPT !.pc = "idle"]
    ELSE IF entry = "env.py" THEN [IdleController EXCEPT !.attached = ct.attached]
    ELSE IdleController

\* The finally block of shutdown_environment, whatever happened before it:
\* playwright_tool = None, browser_executor = None, and in main.py
\* http_client = None (env.py keeps persistent_ctx).
shutdown_finally(ct, entry, err) ==
    IF entry = "env.py" THEN [IdleController EXCEPT !.attached = ct.attached]
    ELSE IdleController

\* env.py shutdown_environment, second half: when persistent_ctx is set,
\* provider.close() and set_initialized(False); err: the call that fetches the
\* provider from the context raises, which is logged and skips both; the
\* globals are cleared in finally.
ShutdownProvider(c) ==
    /\ deploy = "env.py"
    /\ ctl[c].pc = "shutdown"
    /\ \E err \in BOOLEAN :
          /\ err => ctl[c].attached
          /\ IF ~ctl[c].attached \/ err
             THEN UNCHANGED <<context, providers, unclosed, vendorLive>>
             ELSE /\ context' = [context EXCEPT !.is_initialized = FALSE]
                  /\ IF context.browser_provider = NoRef
                     THEN UNCHANGED <<providers, unclosed, vendorLive>>
                     ELSE \E resp \in CloseResponses(
                                         providers[context.browser_provider].instance_id,
                                         vendorLive) :
                             ShutdownClose(resp)
          /\ ctl' = [ctl EXCEPT ![c] = shutdown_finally(@, deploy, err)]
    /\ UNCHANGED <<deploy, environ, nextSid>>
    /\ UNCHANGED notSessVars

\* main.py shutdown_environment with server.py shutdown: POST /shutdown closes
\* the provider and resets browser_provider, is_initialized and _telemetry;
\* a request that fails is logged; the globals are cleared in finally.
ShutdownServer(c) ==
    /\ deploy = "main.py"
    /\ ctl[c].pc \in {"ready", "failed"}
    /\ \E delivered \in BOOLEAN :
          /\ IF ~delivered \/ ~ctl[c].attached
             THEN UNCHANGED <<context, providers, unclosed, vendorLive>>
             ELSE /\ context' = RemoteBrowserContext
                  /\ IF context.browser_provider = NoRef
                     THEN UNCHANGED <<providers, unclosed, vendorLive>>
                     ELSE \E resp \in CloseResponses(
                                         providers[context.browser_provider].instance_id,
                                         vendorLive) :
                             ShutdownClose(resp)
          /\ ctl' = [ctl EXCEPT ![c] = shutdown_finally(@, deploy, ~delivered)]
    /\ UNCHANGED <<deploy, environ, nextSid>>
    /\ UNCHANGED notSessVars

NextSession ==
    \/ Deploy
    \/ \E c \in Controllers :
          \/ InitializeBegin(c)
          \/ AttachContext(c)
          \/ CheckInitialized(c)
          \/ DirectInitialize(c)
          \/ ConstructProvider(c)
          \/ LaunchBrowser(c)
          \/ ReuseSession(c)
          \/ ConnectPlaywright(c)
          \/ FinishInitialize(c)
          \/ ShutdownTool(c)
          \/ ShutdownProvider(c)
          \/ ShutdownServer(c)

(***************************************************************************)
(* PlaywrightToolWithMemory: the action memory                             *)
(***************************************************************************)

\* The most Action Records in one run of the model.
MaxActions == 3

\* The most _ensure_browser calls the model counts.
MaxEnsure == 2

Urls == {"https://a.example", "https://b.example"}
Selectors == {"#submit", "#cancel"}

\* self.page before _ensure_browser.
NoPage == "None"

\* What the browser operation of the base class returns: a dict with
\* success true or false.
ToolResults == {"success", "failure"}

\* The browser operation of the base class raises instead of returning.
ToolRaises == "raises"

\* result=None of _record_action.
NoResult == "None"

NoFlight == [op |-> "none", arg |-> "", rec |-> 0]

\* _record_action: the Action Record appended (the timestamp is left out).
ActionRecord(action_type, details, result) ==
    [type |-> action_type, details |-> details, result |-> result]

\* A recording that skips a record equal to the last one.
record_action_once(history, action_type, details) ==
    IF history # <<>> /\ history[Len(history)].type = action_type
          /\ history[Len(history)].details = details
    THEN history
    ELSE Append(history, ActionRecord(action_type, details, NoResult))

\* A recording that keeps the two most recent records.
record_action_keep_last(history, action_type, details) ==
    LET h == Append(history, ActionRecord(action_type, details, NoResult))
    IN IF Len(h) > 2 THEN Tail(h) ELSE h

record_action(history, action_type, details) ==
    Append(history, ActionRecord(action_type, details, NoResult))

\* if self.action_history: self.action_history[-1]["result"] = result
attach_result(history, rec, result) ==
    IF history = <<>> THEN history
    ELSE [history EXCEPT ![Len(history)].result = result]

\* A navigation history that takes an entry whatever the result.
navigation_entry_always(history, result, url) == Append(history, url)

\* if result.get("success") and self.page: self.navigation_history.append(...)
navigation_entry(history, result, url) ==
    IF result = "success" THEN Append(history, url) ELSE history

\* A handler table that keeps one entry per registration.
register_listener_again(handlers) ==
    IF handlers < MaxEnsure THEN handlers + 1 ELSE handlers

\* self.page.on("dialog", self._handle_dialog): the page's handler table is
\* keyed by the handler, so registering the same bound method again leaves
\* one entry.
register_listener(handlers) == 1

\* The page emits "dialog": every handler of the table runs _handle_dialog,
\* which appends a "dialog" record and dismisses the dialog.
RECURSIVE handle_dialog(_, _)
handle_dialog(history, handlers) ==
    IF handlers = 0 THEN history
    ELSE handle_dialog(record_action(history, "dialog", "alert"), handlers - 1)

NoListeners == [ensured |-> 0, handlers |-> 0]

InitWrapper ==
    /\ page = NoPage
    /\ action_history = <<>>
    /\ navigation_history = <<>>
    /\ selector_history = <<>>
    /\ inflight = NoFlight
    /\ listeners = NoListeners

\* _ensure_browser: the base class connects if it has to, then the dialog
\* listener is set; BrowserExecutor._ensure_page calls it before every action.
EnsureBrowser ==
    /\ listeners.ensured < MaxEnsure
    /\ page' = IF page = NoPage THEN "about:blank" ELSE page
    /\ listeners' = [ensured |-> listeners.ensured + 1,
                     handlers |-> register_listener(listeners.handlers)]
    /\ UNCHANGED <<action_history, navigation_history, selector_history, inflight>>
    /\ UNCHANGED notWrapVars

\* navigate up to its await: the record is appended, the base navigate starts.
NavigateBegin ==
    /\ page # NoPage
    /\ inflight = NoFlight
    /\ Len(action_history) < MaxActions
    /\ \E url \in Urls :
          /\ action_history' = record_action(action_history, "navigate", url)
          /\ inflight' = [op |-> "navigate", arg |-> url, rec |-> Len(action_history) + 1]
    /\ UNCHANGED <<page, navigation_history, selector_history, listeners>>
    /\ UNCHANGED notWrapVars

\* navigate after its await: the base navigate raises and nothing more is
\* done; or the result is written, and a successful navigation is appended
\* to navigation_history with the URL the page shows (the one asked for).
NavigateEnd ==
    /\ inflight.op = "navigate"
    /\ \E result \in ToolResults \cup {ToolRaises} :
          IF result = ToolRaises
          THEN UNCHANGED <<action_history, page, navigation_history>>
          ELSE /\ action_history' = attach_result(action_history, inflight.rec, result)
               /\ page' = IF result = "success" THEN inflight.arg ELSE page
               /\ navigation_history' = navigation_entry(navigation_history, result,
                                                         inflight.arg)
    /\ inflight' = NoFlight
    /\ UNCHANGED <<selector_history, listeners>>
    /\ UNCHANGED notWrapVars

\* click up to its await: the selector and the record are appended.
ClickBegin ==
    /\ page # NoPage
    /\ inflight = NoFlight
    /\ Len(action_history) < MaxActions
    /\ \E selector \in Selectors :
          /\ selector_history' = Append(selector_history, selector)
          /\ action_history' = record_action(action_history, "click", selector)
          /\ inflight' = [op |-> "click", arg |-> selector, rec |-> Len(action_history) + 1]
    /\ UNCHANGED <<page, navigation_history, listeners>>
    /\ UNCHANGED notWrapVars

\* click after its await: the base click raises, or the result is written.
ClickEnd ==
    /\ inflight.op = "click"
    /\ \E result \in ToolResults \cup {ToolRaises} :
          action_history' = IF result = ToolRaises THEN action_history
                            ELSE attach_result(action_history, inflight.rec, result)
    /\ inflight' = NoFlight
    /\ UNCHANGED <<page, navigation_history, selector_history, listeners>>
    /\ UNCHANGED notWrapVars

\* type: PlaywrightToolWithMemory does not define it, so the call runs the
\* type of the base class, which knows no history.
TypeBegin ==
    /\ page # NoPage
    /\ inflight = NoFlight
    /\ \E selector \in Selectors :
          inflight' = [op |-> "type", arg |-> selector, rec |-> 0]
    /\ UNCHANGED <<page, action_history, navigation_history, selector_history, listeners>>
    /\ UNCHANGED notWrapVars

\* The type of the base class returns or raises.
TypeEnd ==
    /\ inflight.op = "type"
    /\ inflight' = NoFlight
    /\ UNCHANGED <<page, action_history, navigation_history, selector_history, listeners>>
    /\ UNCHANGED notWrapVars

\* _handle_dialog: the page raises a dialog, at rest or while a call awaits
\* the browser; each handler of the page appends a "dialog" record and
\* dismisses the dialog; an error is logged.
DialogEvent ==
    /\ page # NoPage
    /\ Len(action_history) + listeners.handlers <= MaxActions
    /\ action_history' = handle_dialog(action_history, listeners.handlers)
    /\ UNCHANGED <<page, navigation_history, selector_history, inflight, listeners>>
    /\ UNCHANGED notWrapVars

BrowserEvaluators ==
    {"url_match", "page_contains", "element_exists", "cookie_exists", "cookie_match",
     "sheet_contains", "sheets_cell_values"}

HistoryEvaluators ==
    {"history_length", "raw_last_action_is", "selector_history", "verify_type_action"}

\* An evaluator that clicks through the tool's click.
EvaluatorClicks_on_tool(name) ==
    IF name = "sheets_cell_values"
    THEN << [via |-> "tool", selector |-> "span.docs-sheet-tab-name"],
            [via |-> "tool", selector |-> "body"],
            [via |-> "tool", selector |-> ".fixed4-inner-container"] >>
    ELSE <<>>

\* The clicks an evaluator makes and the object it makes them on:
\* sheets_cell_values clicks the ANSWER tab, the body and the grid on
\* playwright_tool.page; no other evaluator clicks.
EvaluatorClicks(name) ==
    IF name = "sheets_cell_values"
    THEN << [via |-> "page", selector |-> "span.docs-sheet-tab-name"],
            [via |-> "page", selector |-> "body"],
            [via |-> "page", selector |-> ".fixed4-inner-container"] >>
    ELSE <<>>

\* What clicks leave in the histories: one made through
\* PlaywrightToolWithMemory.click is recorded, one made on the page is not.
RECURSIVE click_all(_, _, _)
click_all(h, clicks, i) ==
    IF i > Len(clicks) THEN h
    ELSE click_all(
            IF clicks[i].via = "tool"
            THEN [action_history |-> record_action(h.action_history, "click", clicks[i].selector),
                  selector_history |-> Append(h.selector_history, clicks[i].selector)]
            ELSE h,
            clicks, i + 1)

\* A scenario calls an evaluator with the tool; the evaluator reads the
\* tool's attributes and starts to inspect the page.
EvaluateBegin ==
    /\ page # NoPage
    /\ inflight = NoFlight
    /\ \E name \in BrowserEvaluators \cup HistoryEvaluators :
          inflight' = [op |-> "evaluate", arg |-> name, rec |-> 0]
    /\ UNCHANGED <<page, action_history, navigation_history, selector_history, listeners>>
    /\ UNCHANGED notWrapVars

\* The evaluator has made its clicks and key presses and returns, or raises.
EvaluateEnd ==
    /\ inflight.op = "evaluate"
    /\ LET h == click_all([action_history |-> action_history,
                           selector_history |-> selector_history],
                          EvaluatorClicks(inflight.arg), 1)
       IN /\ action_history' = h.action_history
          /\ selector_history' = h.selector_history
    /\ inflight' = NoFlight
    /\ UNCHANGED <<page, navigation_history, listeners>>
    /\ UNCHANGED notWrapVars

\* Setup helpers that work on playwright_tool.page (set_cookies, fill_input
\* and the others do as click_element does); navigate_to_url is the tool's
\* navigate above.
SetupHelpers == {"click_element", "load_html_content"}

\* A setup helper is called with the tool and returns its result; it has no
\* step that reads or writes a history, so it is taken as one step:
\* load_html_content has sent the page to a data: URL with page.goto, or
\* page.goto raised; the others leave the page where it is.
SetupHelper ==
    /\ page # NoPage
    /\ inflight = NoFlight
    /\ \E name \in SetupHelpers, loaded \in BOOLEAN :
          page' = IF name = "load_html_content" /\ loaded
                  THEN "data:text/html" ELSE page
    /\ UNCHANGED <<action_history, navigation_history, selector_history, inflight,
                   listeners>>
    /\ UNCHANGED notWrapVars

NextWrapper ==
    \/ EnsureBrowser
    \/ NavigateBegin
    \/ NavigateEnd
    \/ ClickBegin
    \/ ClickEnd
    \/ TypeBegin
    \/ TypeEnd
    \/ DialogEvent
    \/ EvaluateBegin
    \/ EvaluateEnd
    \/ SetupHelper

(***************************************************************************)
(* Evaluators                                                              *)
(***************************************************************************)

\* The inspections of the browser handle an evaluator makes: page.url,
\* page.context, page.content(), context.cookies(), page.query_selector(),
\* wait_for_selector / wait_for_timeout, page.locator(...) and page.click,
\* context.grant_permissions, page.keyboard.press, and the clipboard read
\* through page.evaluate.
InspectionPoints ==
    {"url", "context", "content", "cookies", "query", "wait", "locator",
     "permissions", "keyboard", "clipboard"}

\* How the handle behaves: sound, one inspection raising, or all of them (a
\* closed connection).
RaiseSets == {{}} \cup {{p} : p \in InspectionPoints} \cup {InspectionPoints}

\* The most search terms or cells an evaluator is asked for.
MaxTerms == 2

\* The most records in a history an evaluator is given.
MaxHistory == 2

\* Action Records an evaluator may find in action_history.
EvalActions ==
    { [type |-> "click", text |-> "", selector |-> "#submit"],
      [type |-> "type", text |-> "hi", selector |-> "#submit"],
      [type |-> "type", text |-> "yo", selector |-> "#cancel"] }

SeqsUpTo(S, n) == UNION {[1..k -> S] : k \in 0..n}

\* min_length / max_length: None when not given, otherwise <<n>> for the
\* integer n, which may be zero or negative.
NoLength == <<>>

\* The characters of a cell reference, by what str.isalpha, str.isdigit and
\* int make of them: letters; decimal digits; SUPERSCRIPT TWO, a digit to
\* isdigit that int does not accept; and "$", neither letter nor digit.
Alphabet ==
    <<"A", "B", "C", "D", "E", "F", "G", "H", "I", "J", "K", "L", "M",
      "N", "O", "P", "Q", "R", "S", "T", "U", "V", "W", "X", "Y", "Z">>
Digits == <<"0", "1", "2", "3", "4", "5", "6", "7", "8", "9">>
Letters == {Alphabet[k] : k \in 1..Len(Alphabet)}
LowerCase == {"a", "z"}
DecimalDigits == {Digits[k] : k \in 1..Len(Digits)}
SuperscriptTwo == "sup2"

\* str.upper on one character.
upper(char) == IF char = "a" THEN "A" ELSE IF char = "z" THEN "Z" ELSE char

isalpha(char) == char \in Letters \cup LowerCase
isdigit(char) == char \in DecimalDigits \cup {SuperscriptTwo}

\* The keys of cell_values an evaluation may be given: A1, B1, A2, and A,
\* 1, $A1, A1$, A0 and A followed by SUPERSCRIPT TWO.
CellRefs ==
    { <<"A", "1">>, <<"B", "1">>, <<"A", "2">>,
      <<"A">>, <<"1">>, <<"$", "A", "1">>, <<"A", "1", "$">>,
      <<"A", "0">>, <<"A", SuperscriptTwo>> }

\* A reference in A1 notation: letters, then decimal digits.
WellFormed(cell_ref) ==
    \E i \in 1..(Len(cell_ref) - 1) :
        /\ \A k \in 1..i : cell_ref[k] \in Letters \cup LowerCase
        /\ \A k \in (i + 1)..Len(cell_ref) : cell_ref[k] \in DecimalDigits

\* The values expected of a cell.
ExpectedValues == {"x", "z"}

\* What the clipboard holds after Ctrl+A, Ctrl+C, split into rows and cells:
\* an empty sheet, or one with "x " and "y" in row 1 and "z" in row 2.
SheetContents == { <<<<"">>>>, <<<<"x ", "y">>, <<"z">>>> }

\* cell_values as the ordered dict it is: up to n pairs with distinct keys.
CellValues(n) ==
    {cv \in SeqsUpTo([cell : CellRefs, expected : ExpectedValues], n) :
        \A i, j \in 1..Len(cv) : i # j => cv[i].cell # cv[j].cell}

\* search_terms after the str-to-list conversion: up to MaxTerms terms.
SearchTerms == SeqsUpTo({"Total", "total", "Sum"}, MaxTerms)

\* The text a containment evaluator reads (page.content(), the clipboard), as
\* the set of the words that occur in it; the empty text has none.
Contents == { {}, {"Total"}, {"total", "sum"} }

\* An evaluator call with nothing to look at.
DefaultInput ==
    [name |-> "url_match", tool |-> FALSE, page |-> FALSE, raises |-> {},
     holds |-> FALSE, cookie |-> "absent", on_sheet |-> FALSE,
     search_terms |-> <<>>, content |-> {}, partial_rewarding |-> TRUE,
     action_history |-> <<>>, selector_history |-> <<>>,
     min_length |-> NoLength, max_length |-> NoLength, index |-> 0,
     expected |-> "", selector |-> "", cell_values |-> <<>>, rows |-> <<<<"">>>>]

\* holds: what is looked for is there (the target in the URL, the element).
\* cookie: absent, there with another value, or there with the expected one.
\* on_sheet: the URL is one of Google Sheets.  empty: the clipboard is empty.
\* found of total: search terms found.  cell_values: the cells to check and
\* the values expected; rows: the content of the sheet.
EvalInputs ==
    {[DefaultInput EXCEPT !.name = n, !.tool = t, !.page = p, !.raises = r, !.holds = h] :
        n \in {"url_match", "element_exists"}, t \in BOOLEAN, p \in BOOLEAN,
        r \in RaiseSets, h \in BOOLEAN}
    \cup
    {[DefaultInput EXCEPT !.name = n, !.tool = TRUE, !.page = p, !.raises = r, !.cookie = c] :
        n \in {"cookie_exists", "cookie_match"}, p \in BOOLEAN,
        r \in RaiseSets, c \in {"absent", "other", "expected"}}
    \cup
    {[DefaultInput EXCEPT !.name = n, !.tool = TRUE, !.page = TRUE, !.raises = r,
                          !.on_sheet = n = "page_contains" \/ s,
                          !.search_terms = t, !.content = c, !.partial_rewarding = pr] :
        n \in {"page_contains", "sheet_contains"}, r \in RaiseSets, s \in BOOLEAN,
        t \in SearchTerms, c \in Contents, pr \in BOOLEAN}
    \cup
    {[DefaultInput EXCEPT !.name = "sheets_cell_values", !.tool = TRUE, !.page = TRUE,
                          !.raises = r, !.on_sheet = s, !.cell_values = cv] :
        r \in RaiseSets, s \in BOOLEAN, cv \in CellValues(1)}
    \cup
    {[DefaultInput EXCEPT !.name = "sheets_cell_values", !.tool = TRUE, !.page = TRUE,
                          !.on_sheet = TRUE, !.cell_values = cv, !.rows = rows,
                          !.partial_rewarding = pr] :
        cv \in CellValues(MaxTerms), rows \in SheetContents, pr \in BOOLEAN}
    \cup
    {[DefaultInput EXCEPT !.name = "history_length", !.tool = t, !.action_history = h,
                          !.min_length = lo, !.max_length = hi] :
        t \in BOOLEAN, h \in SeqsUpTo(EvalActions, MaxHistory),
        lo \in {NoLength} \cup {<<n>> : n \in (0 - 1)..MaxHistory},
        hi \in {NoLength} \cup {<<n>> : n \in (0 - 1)..MaxHistory}}
    \cup
    {[DefaultInput EXCEPT !.name = "raw_last_action_is", !.tool = t, !.action_history = h,
                          !.expected = e] :
        t \in BOOLEAN, h \in SeqsUpTo(EvalActions, MaxHistory), e \in {"click", "type"}}
    \cup
    {[DefaultInput EXCEPT !.name = "selector_history", !.tool = t, !.selector_history = h,
                          !.index = i, !.expected = e] :
        t \in BOOLEAN, h \in SeqsUpTo(Selectors, MaxHistory),
        i \in (0 - 1)..MaxHistory, e \in Selectors}
    \cup
    {[DefaultInput EXCEPT !.name = "verify_type_action", !.tool = t, !.action_history = h,
                          !.expected = e, !.selector = sel, !.partial_rewarding = pr] :
        t \in BOOLEAN, h \in SeqsUpTo(EvalActions, MaxHistory), e \in {"", "hi"},
        sel \in {"", "#submit"}, pr \in BOOLEAN}

\* A result dict: reward in hundredths, success, and whether "error" is set.
Result(reward, success, error) ==
    [ended |-> "returned", reward |-> reward, success |-> success, error |-> error]

\* {"reward": 0.0, "success": False, "error": ...}
ErrorResult == Result(0, FALSE, TRUE)

\* The exception leaves the evaluator.
Propagated == [ended |-> "raised", reward |-> 0, success |-> FALSE, error |-> TRUE]

NotRun == [ended |-> "none", reward |-> 0, success |-> FALSE, error |-> FALSE]

\* not playwright_tool or not hasattr(playwright_tool, "page") or not playwright_tool.page
NoBrowserPage(in) == ~in.tool \/ ~in.page

\* len(found) / len(terms), in hundredths rounded down.
Share(found, total) == (100 * found) \div total

Max(a, b) == IF a >= b THEN a ELSE b
Abs(a) == IF a >= 0 THEN a ELSE 0 - a

url_match(in) ==
    IF NoBrowserPage(in) THEN ErrorResult
    ELSE IF "url" \in in.raises THEN Propagated
    ELSE IF in.holds THEN Result(100, TRUE, FALSE)
    ELSE Result(0, FALSE, FALSE)

\* term in content
term_in_page(term, content) == term \in content

\* A sheet search that compares the term as written.
term_in_sheet_as_written(term, content) == term \in content

\* term.lower() in clipboard_content.lower()
term_in_sheet(term, content) == lower(term) \in {lower(word) : word \in content}

page_contains(in) ==
    IF NoBrowserPage(in) THEN ErrorResult
    ELSE IF "content" \in in.raises THEN ErrorResult
    ELSE LET terms == in.search_terms
             found_terms == SelectSeq(terms, LAMBDA term : term_in_page(term, in.content))
             not_found_terms ==
                 SelectSeq(terms, LAMBDA term : ~term_in_page(term, in.content))
             reward == IF in.partial_rewarding /\ terms # <<>>
                       THEN Share(Len(found_terms), Len(terms))
                       ELSE IF not_found_terms = <<>> THEN 100 ELSE 0
         IN Result(reward, reward > 0, FALSE)

element_exists(in) ==
    IF NoBrowserPage(in) THEN ErrorResult
    ELSE IF "query" \in in.raises THEN ErrorResult
    ELSE IF in.holds THEN Result(100, TRUE, FALSE)
    ELSE Result(0, FALSE, FALSE)

cookie_exists(in) ==
    IF NoBrowserPage(in) THEN ErrorResult
    ELSE IF in.raises \cap {"context", "cookies"} # {} THEN ErrorResult
    ELSE IF in.cookie # "absent" THEN Result(100, TRUE, FALSE)
    ELSE Result(0, FALSE, FALSE)

cookie_match(in) ==
    IF NoBrowserPage(in) THEN ErrorResult
    ELSE IF in.raises \cap {"context", "cookies"} # {} THEN ErrorResult
    ELSE IF in.cookie = "absent" THEN ErrorResult
    ELSE IF in.cookie = "expected" THEN Result(100, TRUE, FALSE)
    ELSE Result(0, FALSE, FALSE)

\* page.url is read before the try; a failed wait is retried by another wait
\* in its handler; everything else is inside the try.
sheet_contains(in) ==
    IF NoBrowserPage(in) THEN ErrorResult
    ELSE IF "url" \in in.raises THEN Propagated
    ELSE IF ~in.on_sheet THEN ErrorResult
    ELSE IF in.search_terms = <<>> THEN ErrorResult
    ELSE IF in.raises \cap {"wait", "keyboard", "clipboard"} # {} THEN ErrorResult
    ELSE IF in.content = {} THEN ErrorResult
    ELSE LET terms == in.search_terms
             found_terms == SelectSeq(terms, LAMBDA term : term_in_sheet(term, in.content))
             missing_terms ==
                 SelectSeq(terms, LAMBDA term : ~term_in_sheet(term, in.content))
             reward == IF in.partial_rewarding /\ terms # <<>>
                       THEN Share(Len(found_terms), Len(terms))
                       ELSE IF missing_terms = <<>> THEN 100 ELSE 0
         IN Result(reward, missing_terms = <<>>, FALSE)

\* int() of a string of decimal digits.
DigitValue(char) == (CHOOSE k \in 1..Len(Digits) : Digits[k] = char) - 1

RECURSIVE int(_)
int(digits) ==
    IF digits = <<>> THEN 0
    ELSE 10 * int(SubSeq(digits, 1, Len(digits) - 1)) + DigitValue(digits[Len(digits)])

\* A letter counted from zero, as in ordinary base 26.
LetterValue_from_zero(char) == (CHOOSE k \in 1..Len(Alphabet) : Alphabet[k] = upper(char)) - 1

\* ord(char) - ord("A") + 1 of an upper-cased letter.
LetterValue(char) == CHOOSE k \in 1..Len(Alphabet) : Alphabet[k] = upper(char)

\* A -> 0, B -> 1, Z -> 25, AA -> 26, AZ -> 51, BA -> 52.
RECURSIVE column_to_index_from(_, _, _)
column_to_index_from(col_str, i, result) ==
    IF i > Len(col_str) THEN result - 1
    ELSE column_to_index_from(col_str, i + 1, result * 26 + LetterValue(col_str[i]))

column_to_index(col_str) == column_to_index_from(col_str, 1, 0)

\* Where the loop over the characters stops: at the first character that
\* is not a letter, or past the end.
RECURSIVE letters_end(_, _)
letters_end(cell_ref, i) ==
    IF i > Len(cell_ref) THEN i
    ELSE IF isalpha(cell_ref[i]) THEN letters_end(cell_ref, i + 1)
    ELSE i

\* int(row_digits) - 1
row_index(row_digits) == int(row_digits) - 1

\* None for an invalid reference, (col_letters, row_num, col_num) for a valid
\* one; int(row_digits) raises ValueError on a digit that is not decimal.
parse_cell_reference(cell_ref) ==
    LET i == letters_end(cell_ref, 1)
        col_letters == [k \in 1..(i - 1) |-> upper(cell_ref[k])]
        row_digits == SubSeq(cell_ref, i, Len(cell_ref))
        invalid == [kind |-> "None", col_letters |-> <<>>, row_num |-> 0, col_num |-> 0]
    IN IF i <= Len(cell_ref) /\ ~isdigit(cell_ref[i]) THEN invalid
       ELSE IF \/ col_letters = <<>>
               \/ row_digits = <<>>
               \/ \E k \in 1..Len(row_digits) : ~isdigit(row_digits[k])
       THEN invalid
       ELSE IF \E k \in 1..Len(row_digits) : row_digits[k] \notin DecimalDigits
       THEN [kind |-> "ValueError", col_letters |-> <<>>, row_num |-> 0, col_num |-> 0]
       ELSE [kind |-> "cell", col_letters |-> col_letters,
             row_num |-> row_index(row_digits), col_num |-> column_to_index(col_letters)]

\* actual_values[cell_ref] of a parsed reference; a negative row_num counts
\* from the last row.
cell_value(rows, parsed) ==
    IF parsed.row_num < Len(rows)
    THEN LET cells == rows[IF parsed.row_num < 0
                           THEN Len(rows) + parsed.row_num + 1
                           ELSE parsed.row_num + 1]
         IN IF parsed.col_num < Len(cells) THEN cells[parsed.col_num + 1] ELSE ""
    ELSE ""

\* str.strip on the values of the model.
strip(value) == IF value = "x " THEN "x" ELSE value

\* The comparison of one cell: None is a mismatch.
cell_matches(rows, c) ==
    LET parsed == parse_cell_reference(c.cell) IN
    /\ parsed.kind = "cell"
    /\ strip(cell_value(rows, parsed)) = strip(c.expected)

\* page.context and page.url are read before any try; the errors of the tab
\* search, of the waits and of grant_permissions are swallowed; the
\* extraction is inside a try.
sheets_cell_values(in) ==
    IF NoBrowserPage(in) THEN ErrorResult
    ELSE IF "context" \in in.raises THEN Propagated
    ELSE IF "url" \in in.raises THEN Propagated
    ELSE IF ~in.on_sheet THEN ErrorResult
    ELSE IF in.cell_values = <<>> THEN Result(100, TRUE, FALSE)
    ELSE IF in.raises \cap {"keyboard", "locator", "clipboard"} # {} THEN ErrorResult
    ELSE IF \E k \in 1..Len(in.cell_values) :
                parse_cell_reference(in.cell_values[k].cell).kind = "ValueError"
    THEN ErrorResult
    ELSE LET total_cells == Len(in.cell_values)
             matching == SelectSeq(in.cell_values, LAMBDA c : cell_matches(in.rows, c))
             mismatches == SelectSeq(in.cell_values, LAMBDA c : ~cell_matches(in.rows, c))
             matching_cells == Len(matching)
             reward == IF in.partial_rewarding /\ total_cells > 0
                       THEN Share(matching_cells, total_cells)
                       ELSE IF matching_cells = total_cells THEN 100 ELSE 0
         IN [ended |-> "returned", reward |-> reward,
             success |-> matching_cells = total_cells, error |-> FALSE,
             matching_cells |-> matching_cells, total_cells |-> total_cells,
             mismatches |-> [i \in 1..Len(mismatches) |-> mismatches[i].cell]]

history_length(in) ==
    IF ~in.tool THEN ErrorResult
    ELSE LET hist_len == Len(in.action_history)
             lo == in.min_length
             hi == in.max_length
             in_range == /\ ~(lo # NoLength /\ hist_len < lo[1])
                         /\ ~(hi # NoLength /\ hist_len > hi[1])
             \* target = (min_length + max_length) / 2 = sum / 2, so that
             \* 1 - abs(hist_len - target) / target
             \*   = (sum - abs(2 * hist_len - sum)) / sum
             reward == IF lo # NoLength /\ hi # NoLength
                       THEN LET sum == lo[1] + hi[1] IN
                            IF sum > 0
                            THEN Max(0, (100 * (sum - Abs(2 * hist_len - sum))) \div sum)
                            ELSE IF in_range THEN 100 ELSE 0
                       ELSE IF in_range THEN 100 ELSE 0
         IN Result(reward, in_range, FALSE)

raw_last_action_is(in) ==
    IF ~in.tool THEN ErrorResult
    ELSE IF in.action_history = <<>> THEN ErrorResult
    ELSE IF in.action_history[Len(in.action_history)].type = in.expected
    THEN Result(100, TRUE, FALSE)
    ELSE Result(0, FALSE, FALSE)

\* The lookup without the lower bound: a negative index counts from the end
\* of the list, and past its start the lookup raises IndexError.
selector_history_upper_bound_only(in) ==
    IF ~in.tool THEN ErrorResult
    ELSE IF in.index >= Len(in.selector_history) THEN ErrorResult
    ELSE IF in.index < 0 /\ in.index + Len(in.selector_history) < 0 THEN Propagated
    ELSE LET at == IF in.index < 0 THEN in.index + Len(in.selector_history) + 1
                   ELSE in.index + 1
         IN IF in.selector_history[at] = in.expected
            THEN Result(100, TRUE, FALSE)
            ELSE Result(0, FALSE, FALSE)

\* index is 0-based; sequences are 1-based.
evaluate_selector_history(in) ==
    IF ~in.tool THEN ErrorResult
    ELSE IF in.index < 0 \/ in.index >= Len(in.selector_history) THEN ErrorResult
    ELSE IF in.selector_history[in.index + 1] = in.expected
    THEN Result(100, TRUE, FALSE)
    ELSE Result(0, FALSE, FALSE)

\* The loop of verify_type_action from index i down to 1.
RECURSIVE verify_from(_, _)
verify_from(in, i) ==
    IF i = 0 THEN ErrorResult
    ELSE LET action == in.action_history[i] IN
         IF action.type # "type" THEN verify_from(in, i - 1)
         ELSE IF in.selector # "" /\ action.selector # in.selector
         THEN verify_from(in, i - 1)
         ELSE IF action.text = in.expected THEN Result(100, TRUE, FALSE)
         ELSE IF in.selector = "" /\ in.partial_rewarding THEN Result(50, FALSE, FALSE)
         ELSE verify_from(in, i - 1)

verify_type_action(in) ==
    IF in.expected = "" THEN ErrorResult
    ELSE IF ~in.tool \/ in.action_history = <<>> THEN ErrorResult
    ELSE verify_from(in, Len(in.action_history))

\* The first inspection of the browser handle each evaluator makes once it
\* has a page.
FirstInspection(name) ==
    CASE name = "url_match" -> "url"
      [] name = "page_contains" -> "content"
      [] name = "element_exists" -> "query"
      [] name = "cookie_exists" -> "context"
      [] name = "cookie_match" -> "context"
      [] name = "sheet_contains" -> "url"
      [] name = "sheets_cell_values" -> "context"

Evaluate(in) ==
    CASE in.name = "url_match" -> url_match(in)
      [] in.name = "page_contains" -> page_contains(in)
      [] in.name = "element_exists" -> element_exists(in)
      [] in.name = "cookie_exists" -> cookie_exists(in)
      [] in.name = "cookie_match" -> cookie_match(in)
      [] in.name = "sheet_contains" -> sheet_contains(in)
      [] in.name = "sheets_cell_values" -> sheets_cell_values(in)
      [] in.name = "history_length" -> history_length(in)
      [] in.name = "raw_last_action_is" -> raw_last_action_is(in)
      [] in.name = "selector_history" -> evaluate_selector_history(in)
      [] in.name = "verify_type_action" -> verify_type_action(in)

InitEval ==
    /\ evIn = DefaultInput
    /\ evOut = NotRun

\* A scenario is about to call an evaluator.
EvalCall ==
    /\ evIn = DefaultInput
    /\ evOut = NotRun
    /\ evIn' \in EvalInputs
    /\ evOut' = NotRun
    /\ UNCHANGED notEvalVars

\* The evaluator runs to its end.
EvalRun ==
    /\ evOut = NotRun
    /\ evOut' = Evaluate(evIn)
    /\ UNCHANGED evIn
    /\ UNCHANGED notEvalVars

\* The scenario has taken the result, or the exception.
EvalDone ==
    /\ evOut # NotRun
    /\ evIn' = DefaultInput
    /\ evOut' = NotRun
    /\ UNCHANGED notEvalVars

NextEval == EvalCall \/ EvalRun \/ EvalDone


(***************************************************************************)
(* Scenario Protocol                                                       *)
(***************************************************************************)

Scenarios == {"answer", "fill-record", "wiki-speedrun", "complete-sheet-task", "sheet-from-file"}

\* A yielded value is a prompt (a string) or a reward (a float).
Prompt == "prompt"
Reward == "reward"

\* A reward in hundredths; the reward arithmetic dividing by zero; nothing.
RewardOf(amount) == [kind |-> "reward", amount |-> amount]
ZeroDivisionError == [kind |-> "ZeroDivisionError", amount |-> 0]
NoReward == [kind |-> "none", amount |-> 0]

\* A run that has no tool and is given nothing.
IdleInputs ==
    [name |-> "answer", tool |-> FALSE, page |-> FALSE, file_url |-> FALSE,
     file_bytes |-> FALSE, created |-> FALSE, navRaises |-> FALSE, handleRaises |-> FALSE,
     expected |-> FALSE, agrees |-> FALSE, total |-> 0, found |-> 0,
     search_terms |-> <<>>, content |-> {},
     reached |-> FALSE, max_clicks |-> 0, history_length |-> <<>>, on_sheet |-> FALSE,
     cell_values |-> <<>>, rows |-> <<<<"">>>>, partial_rewarding |-> TRUE]

\* persistent_ctx.playwright_tool is set or not, and with it playwright_tool.page.
ToolStates ==
    {[tool |-> FALSE, page |-> FALSE], [tool |-> TRUE, page |-> FALSE],
     [tool |-> TRUE, page |-> TRUE]}

\* The inputs of one run.  file_url, file_bytes: the argument is given;
\* created: sheets_from_xlsx / sheets_from_bytes reports success; navRaises:
\* navigate_to_google_sheet re-raises after its last attempt; handleRaises: the
\* page raises when the evaluation phase inspects it.  expected: an expected
\* answer is given, and agrees: compare_answers finds the agent's answer to
\* agree with it.  found of total: the verify selectors that hold the expected
\* value, or the expected_text terms on the sheet.  reached: the page is on
\* the target article; history_length: window.history.length, <<>> when
\* page.evaluate raises; max_clicks, cell_values, partial_rewarding: the
\* arguments of these names.
ScenarioInputs ==
    {[IdleInputs EXCEPT !.name = "answer", !.tool = t.tool, !.page = t.page,
                        !.handleRaises = h, !.expected = e, !.agrees = a] :
        t \in ToolStates, h \in BOOLEAN, e \in BOOLEAN, a \in BOOLEAN}
    \cup
    {in \in
        {[IdleInputs EXCEPT !.name = "fill-record", !.tool = t.tool, !.page = t.page,
                            !.handleRaises = h, !.total = n, !.found = f] :
            t \in ToolStates, h \in BOOLEAN, n \in 0..MaxTerms, f \in 0..MaxTerms} :
        in.found <= in.total}
    \cup
    {[IdleInputs EXCEPT !.name = "wiki-speedrun", !.tool = t.tool, !.page = t.page,
                        !.handleRaises = h, !.reached = r, !.max_clicks = m,
                        !.history_length = len] :
        t \in ToolStates, h \in BOOLEAN, r \in BOOLEAN, m \in (0 - 1)..MaxHistory,
        len \in {<<>>} \cup {<<n>> : n \in 0..(MaxHistory + 1)}}
    \cup
    {[IdleInputs EXCEPT !.name = "complete-sheet-task", !.tool = t.tool, !.page = t.page,
                        !.navRaises = nav, !.handleRaises = h, !.on_sheet = s,
                        !.cell_values = cv, !.rows = rows, !.partial_rewarding = pr] :
        t \in ToolStates, nav \in BOOLEAN, h \in BOOLEAN, s \in BOOLEAN,
        cv \in CellValues(1), rows \in SheetContents, pr \in BOOLEAN}
    \cup
    {[IdleInputs EXCEPT !.name = "sheet-from-file", !.tool = t.tool, !.page = t.page,
                        !.file_url = fu, !.file_bytes = fb, !.created = c,
                        !.handleRaises = h, !.on_sheet = TRUE, !.cell_values = cv,
                        !.rows = rows, !.search_terms = terms, !.content = text] :
        t \in ToolStates, fu \in BOOLEAN, fb \in BOOLEAN, c \in BOOLEAN,
        h \in BOOLEAN, cv \in CellValues(1), rows \in SheetContents,
        terms \in SeqsUpTo({"Total", "Sum"}, 1), text \in Contents}

\* What a resumption of the generator does: it yields a value and suspends
\* (at |-> the suspension point), returns, or raises.
Yielded(v, at) == [kind |-> "yield", value |-> v, at |-> at, reward |-> NoReward]
Rewarded(amount, at) ==
    [kind |-> "yield", value |-> Reward, at |-> at, reward |-> RewardOf(amount)]
Returned == [kind |-> "return", value |-> None, at |-> "done", reward |-> NoReward]
Raised == [kind |-> "raise", value |-> None, at |-> "raised", reward |-> NoReward]
RaisedBy(error) == [kind |-> "raise", value |-> None, at |-> "raised", reward |-> error]

\* The shared head of every scenario: without a tool it yields 0.0.
NoToolYield == Rewarded(0, "after_zero")

\* compare_answers returns 1.0 or 0.0 in every mode, and 0.0 when a mode's
\* parsing fails.
compare_answers(agrees) == IF agrees THEN 100 ELSE 0

\* The evaluator call a scenario makes on its tool.
EvaluatorCall(in, name, partial_rewarding) ==
    [DefaultInput EXCEPT !.name = name, !.tool = in.tool, !.page = in.page,
                         !.raises = IF in.handleRaises THEN InspectionPoints ELSE {},
                         !.on_sheet = in.on_sheet,
                         !.search_terms = in.search_terms, !.content = in.content,
                         !.cell_values = in.cell_values, !.rows = in.rows,
                         !.partial_rewarding = partial_rewarding]

\* answer: navigate_to_url's result is ignored; the prompt is yielded; the
\* reward is compare_answers(...) or 1.0.
answer(in, pc) ==
    CASE pc = "start" -> IF ~in.tool THEN NoToolYield ELSE Yielded(Prompt, "prompted")
      [] pc = "after_zero" -> Returned
      [] pc = "prompted" ->
            Rewarded(IF in.expected THEN compare_answers(in.agrees) ELSE 100, "rewarded")
      [] OTHER -> Returned

\* fill_record: every selector check runs inside try/except, so inspection
\* errors only lower the reward.
fill_record(in, pc) ==
    CASE pc = "start" -> IF ~in.tool THEN NoToolYield ELSE Yielded(Prompt, "prompted")
      [] pc = "after_zero" -> Returned
      [] pc = "prompted" ->
            IF in.total = 0 THEN Rewarded(100, "rewarded")
            ELSE LET matches == IF ~in.page \/ in.handleRaises THEN 0 ELSE in.found
                 IN Rewarded(IF in.total > 0 THEN Share(matches, in.total) ELSE 0, "rewarded")
      [] OTHER -> Returned

\* The reward of wiki_speedrun once the target is reached:
\* max(0.1, 1.0 - (clicks - 1) / max_clicks) = max(0.1, (max_clicks - clicks + 1) / max_clicks),
\* where clicks is max_clicks when page.evaluate raised.
wiki_reward(max_clicks, history_len) ==
    LET clicks == IF history_len = <<>> THEN max_clicks
                  ELSE Max(1, history_len[1] - 1)
    IN IF clicks <= max_clicks
       THEN IF max_clicks = 0 THEN ZeroDivisionError
            ELSE RewardOf(Max(10, (100 * (max_clicks - clicks + 1)) \div max_clicks))
       ELSE RewardOf(10)

\* wiki_speedrun: the evaluation reads page.url outside any try; page is None
\* when the tool has no page.
wiki_speedrun(in, pc) ==
    CASE pc = "start" -> IF ~in.tool THEN NoToolYield ELSE Yielded(Prompt, "prompted")
      [] pc = "after_zero" -> Returned
      [] pc = "prompted" ->
            IF ~in.page \/ in.handleRaises THEN Raised
            ELSE IF ~in.reached THEN Rewarded(0, "rewarded")
            ELSE LET reward == wiki_reward(in.max_clicks, in.history_length) IN
                 IF reward.kind = "reward" THEN Rewarded(reward.amount, "rewarded")
                 ELSE RaisedBy(reward)
      [] OTHER -> Returned

\* complete_sheet_task: with a page it calls navigate_to_google_sheet, which
\* re-raises the navigation error of its last attempt; the reward is that of
\* sheets_cell_values, which reads page.context and page.url outside its try
\* blocks.
complete_sheet_task(in, pc) ==
    CASE pc = "start" ->
            IF ~in.tool THEN NoToolYield
            ELSE IF in.page /\ in.navRaises THEN Raised
            ELSE Yielded(Prompt, "prompted")
      [] pc = "after_zero" -> Returned
      [] pc = "prompted" ->
            LET result == sheets_cell_values(
                              EvaluatorCall(in, "sheets_cell_values", in.partial_rewarding))
            IN IF result.ended = "raised" THEN Raised
               ELSE Rewarded(result.reward, "rewarded")
      [] OTHER -> Returned

Min(a, b) == IF a <= b THEN a ELSE b

\* sheet_from_file: the creation helpers catch every exception and report
\* success False; each setup failure yields 0.0 and returns; the reward is
\* the least of 1.0 and the rewards of the evaluators it was given work for.
sheet_from_file(in, pc) ==
    CASE pc = "start" ->
            IF ~in.tool THEN NoToolYield
            ELSE IF ~in.file_url /\ ~in.file_bytes THEN NoToolYield
            ELSE IF ~in.created THEN NoToolYield
            ELSE Yielded(Prompt, "prompted")
      [] pc = "after_zero" -> Returned
      [] pc = "prompted" ->
            LET cell_result ==
                    IF in.cell_values # <<>>
                    THEN sheets_cell_values(EvaluatorCall(in, "sheets_cell_values", TRUE))
                    ELSE Result(100, TRUE, FALSE)
                text_result ==
                    IF in.search_terms # <<>>
                    THEN sheet_contains(EvaluatorCall(in, "sheet_contains", TRUE))
                    ELSE Result(100, TRUE, FALSE)
            IN IF cell_result.ended = "raised" \/ text_result.ended = "raised" THEN Raised
               ELSE Rewarded(Min(100, Min(cell_result.reward, text_result.reward)),
                             "rewarded")
      [] OTHER -> Returned

Resume(in, pc) ==
    CASE in.name = "answer" -> answer(in, pc)
      [] in.name = "fill-record" -> fill_record(in, pc)
      [] in.name = "wiki-speedrun" -> wiki_speedrun(in, pc)
      [] in.name = "complete-sheet-task" -> complete_sheet_task(in, pc)
      [] OTHER -> sheet_from_file(in, pc)

InitScenario ==
    /\ scIn = IdleInputs
    /\ scPc = "idle"
    /\ scYields = <<>>
    /\ scReward = NoReward

\* The host binds a task to a scenario and creates the generator; every run
\* has a generator of its own, which shares nothing with the run before.
ScenarioStart ==
    /\ scPc = "idle"
    /\ scIn' \in ScenarioInputs
    /\ scPc' = "start"
    /\ scYields' = <<>>
    /\ scReward' = NoReward
    /\ UNCHANGED notScenVars

\* The host resumes the generator (the first __anext__, then asend(answer),
\* then the resumption that ends it).
ScenarioResume ==
    /\ scPc \in {"start", "after_zero", "prompted", "rewarded"}
    /\ LET r == Resume(scIn, scPc) IN
          /\ scPc' = r.at
          /\ scYields' = IF r.kind = "yield" THEN Append(scYields, r.value) ELSE scYields
          /\ scReward' = IF r.reward # NoReward THEN r.reward ELSE scReward
    /\ UNCHANGED scIn
    /\ UNCHANGED notScenVars

NextScenario == ScenarioStart \/ ScenarioResume


(***************************************************************************)
(* BrowserBase launch: the viewport of the request                         *)
(***************************************************************************)

\* The sizes BrowserBase accepts without advancedStealth, in the order of the
\* list in launch.
supported_viewports ==
    <<<<1920, 1080>>, <<1536, 864>>, <<1366, 768>>, <<1280, 720>>, <<1024, 768>>>>

\* No "viewport" key.
NoViewport == <<>>

\* DISPLAY_WIDTH x DISPLAY_HEIGHT as requested: the supported sizes, the
\* defaults of the two adapters, and sizes between and beyond them.
RequestedSizes ==
    { <<1920, 1080>>, <<1536, 864>>, <<1366, 768>>, <<1280, 720>>, <<1024, 768>>,
      <<1300, 700>>, <<1448, 944>>, <<1323, 744>>, <<1451, 720>>, <<800, 600>>,
      <<2560, 1440>>, <<1024, 1080>>, <<1920, 720>>, <<1, 1>> }

\* The launch options that bear on the viewport: advancedStealth, a
\* "viewport" option, and a "viewport" inside the browserSettings option.
ViewportInputs ==
    [size : RequestedSizes, advancedStealth : BOOLEAN,
     viewport : {NoViewport, <<800, 600>>}, settings_viewport : {NoViewport, <<1000, 500>>}]

IdleViewport ==
    [size |-> <<1280, 720>>, advancedStealth |-> FALSE, viewport |-> NoViewport,
     settings_viewport |-> NoViewport]

\* A key that looks at the width alone.
viewport_delta_width(v, width, height) == Abs(v[1] - width)

\* The key of min(): abs(v[0] - width) + abs(v[1] - height).
viewport_delta(v, width, height) == Abs(v[1] - width) + Abs(v[2] - height)

\* min(supported_viewports, key=...): the first element of the list with the
\* least key, from element i on, best being the least so far.
RECURSIVE min_from(_, _, _, _)
min_from(i, best, width, height) ==
    IF i > Len(supported_viewports) THEN best
    ELSE LET v == supported_viewports[i] IN
         min_from(i + 1,
                  IF viewport_delta(v, width, height) < viewport_delta(best, width, height)
                  THEN v ELSE best,
                  width, height)

closest(width, height) == min_from(2, supported_viewports[1], width, height)

\* browser_settings["viewport"] of the request launch builds.
launch_viewport(in) ==
    IF in.viewport # NoViewport THEN in.viewport
    ELSE IF in.settings_viewport # NoViewport THEN in.settings_viewport
    ELSE IF in.advancedStealth THEN in.size
    ELSE closest(in.size[1], in.size[2])

InitViewport ==
    /\ vpIn = IdleViewport
    /\ vpOut = NoViewport

\* launch is called with some options under some DISPLAY_WIDTH / DISPLAY_HEIGHT.
ViewportLaunch ==
    /\ vpOut = NoViewport
    /\ vpIn = IdleViewport
    /\ vpIn' \in ViewportInputs \ {IdleViewport}
    /\ UNCHANGED vpOut
    /\ UNCHANGED notViewVars

\* launch has built request_data.
ViewportBuilt ==
    /\ vpOut = NoViewport
    /\ vpOut' = launch_viewport(vpIn)
    /\ UNCHANGED vpIn
    /\ UNCHANGED notViewVars

\* The request is sent; the next launch starts from nothing.
ViewportSent ==
    /\ vpOut # NoViewport
    /\ vpIn' = IdleViewport
    /\ vpOut' = NoViewport
    /\ UNCHANGED notViewVars

NextViewport == ViewportLaunch \/ ViewportBuilt \/ ViewportSent


(***************************************************************************)
(* parse_cell_reference as a function of the reference                     *)
(***************************************************************************)

\* The most column letters of a reference that is tried in full.
MaxColLetters == 2

\* Row numbers, as digit strings: 1, 2, 9, 10 and 999.
RowDigits == { <<"1">>, <<"2">>, <<"9">>, <<"1", "0">>, <<"9", "9", "9">> }

\* Every column of up to n letters: A .. Z, AA .. ZZ, ...
Columns(n) == UNION {[1..k -> Letters] : k \in 1..n}

\* References that are not a column followed by a row number from 1 on, and
\* two in lower case.
OtherRefs ==
    { <<>>, <<"1">>, <<"A">>, <<"1", "A">>, <<"$", "$">>, <<"$", "A", "1">>,
      <<"A", "1", "B">>, <<"A", "1", "$">>, <<"a", "1">>, <<"z", "z", "9">>,
      <<"A", "0">>, <<"A", "0", "0">>,
      <<"A", SuperscriptTwo>>, <<"A", "1", SuperscriptTwo>> }

ParseInputs ==
    {col \o row : col \in Columns(MaxColLetters), row \in RowDigits} \cup OtherRefs

NotCalled == [called |-> FALSE, cell_ref |-> <<>>]
NotParsed == [kind |-> "none", col_letters |-> <<>>, row_num |-> 0, col_num |-> 0]

InitParse ==
    /\ prIn = NotCalled
    /\ prOut = NotParsed

\* parse_cell_reference is called with a reference.
ParseCall ==
    /\ ~prIn.called
    /\ \E cell_ref \in ParseInputs : prIn' = [called |-> TRUE, cell_ref |-> cell_ref]
    /\ UNCHANGED prOut
    /\ UNCHANGED notParseVars

\* It returns, or raises.
ParseReturn ==
    /\ prIn.called
    /\ prOut = NotParsed
    /\ prOut' = parse_cell_reference(prIn.cell_ref)
    /\ UNCHANGED prIn
    /\ UNCHANGED notParseVars

\* The caller has taken the result.
ParseDone ==
    /\ prOut # NotParsed
    /\ prIn' = NotCalled
    /\ prOut' = NotParsed
    /\ UNCHANGED notParseVars

NextParse == ParseCall \/ ParseReturn \/ ParseDone


Init ==
    /\ InitScenario /\ InitProvider /\ InitDetect /\ InitSession /\ InitAttach
    /\ InitWrapper /\ InitEval /\ InitViewport /\ InitParse

SpecScenario == Init /\ [][NextScenario]_vars

SpecProvider == Init /\ [][NextProvider]_vars

SpecDetect == Init /\ [][NextDetect]_vars

SpecSession == Init /\ [][NextSession]_vars

SpecAttach == Init /\ [][NextAttach]_vars

SpecWrapper == Init /\ [][NextWrapper]_vars

SpecEval == Init /\ [][NextEval]_vars

SpecViewport == Init /\ [][NextViewport]_vars

SpecParse == Init /\ [][NextParse]_vars

\* Every await of the loop returns (the request has a timeout, the sleep
\* ends), so a pass that can be made is made.
SpecAttachFair == SpecAttach /\ \A c \in Controllers : WF_vars(AttachPass(c))

\* C1: every finished run of a scenario, on the success path and on every
\* setup-failure path, has yielded exactly one prompt followed by exactly one
\* reward, and no run yields a reward first or a second prompt.
C1_ExactlyPromptThenReward ==
    /\ scPc \in {"done", "raised"} => scYields = <<Prompt, Reward>>
    /\ scYields \in {<<>>, <<Prompt>>, <<Prompt, Reward>>}

\* C1: a run that took a setup-failure path has ended.
C1_SetupFailureRunEnded ==
    /\ scPc = "done"
    /\ scIn.name = "answer"
    /\ ~scIn.tool

(***************************************************************************)
(* Provider Adapter: close and launch                                      *)
(***************************************************************************)

\* C5: after close() returns on an adapter that holds a launched session, the
\* adapter is not running and its control endpoint and instance id are
\* cleared, whether the vendor acknowledged the teardown, answered with an
\* error status (404 or another), or the network call raised.
C5_CloseAlwaysClears ==
    pvLast.op = "close" /\ pvLast.before.instance_id # NoId =>
        /\ ~prov.is_running
        /\ prov.cdp_url = NoId
        /\ prov.instance_id = NoId
        /\ ~pvLast.raised

\* C5: close() has returned on a running adapter whose vendor answered the
\* terminate request with an error status other than 404.
C5_ClosedAfterVendorError ==
    /\ pvLast.op = "close"
    /\ pvLast.before.is_running
    /\ ~pvLast.resp.raises
    /\ pvLast.resp.status = 500
    /\ pvLast.active

\* C6 as stated: close() called when no session is active (never launched,
\* already closed, or expired at the vendor) sends no vendor request and
\* leaves the adapter state unchanged.
C6_NoRequestWithoutActiveSession ==
    pvLast.op = "close" /\ ~pvLast.active =>
        /\ ~pvLast.raised
        /\ ~pvLast.sent
        /\ prov = pvLast.before

\* C6 as amended: close() never raises; called on an adapter that holds no
\* instance id (never launched, already closed) it sends no vendor request and
\* leaves the adapter unchanged; and from every state a second close() after
\* a close() sends nothing, raises nothing and changes nothing.
C6_CloseIdempotent ==
    /\ pvLast.op = "close" => ~pvLast.raised
    /\ pvLast.op = "close" /\ pvLast.before.instance_id = NoId =>
          ~pvLast.sent /\ prov = pvLast.before
    /\ prov.constructed =>
          \A r1 \in CloseResponses(prov.instance_id, vendorLive) :
             LET once == Provider_close(prov, r1)
                 live == IF once.terminated THEN vendorLive \ {prov.instance_id}
                         ELSE vendorLive
             IN \A r2 \in CloseResponses(once.adapter.instance_id, live) :
                   LET twice == Provider_close(once.adapter, r2) IN
                      /\ twice.adapter = once.adapter
                      /\ ~twice.raised
                      /\ ~twice.sent

\* C6: close() has returned on an adapter that was closed before, and on one
\* whose session had expired at the vendor.
C6_ClosedTwice ==
    /\ pvLast.op = "close"
    /\ pvLast.before.instance_id = NoId
    /\ pvLast.before.constructed
    /\ nextSid > 1

\* C7: constructing an adapter without an API key raises and yields no
\* adapter; launch raises when the create-session answer is not 2xx and when
\* BrowserBase has no project id; and a launch that raised on a fresh adapter
\* leaves it not running and returns no control endpoint.
C7_LaunchFails ==
    /\ pvLast.op = "construct" /\ ~pvLast.api_key =>
          pvLast.raised /\ prov = pvLast.before
    /\ pvLast.op = "launch" /\ ~pvLast.resp.raises /\ ~is_success(pvLast.resp.status) =>
          pvLast.raised /\ pvLast.ret = NoId
    /\ pvLast.op = "launch" /\ pvLast.before.kind = "browserbase"
          /\ ~pvLast.before.project_id =>
          pvLast.raised /\ pvLast.ret = NoId /\ ~pvLast.sent
    /\ pvLast.op = "launch" /\ pvLast.raised
          /\ pvLast.before.instance_id = NoId /\ ~pvLast.before.is_running =>
          ~prov.is_running /\ pvLast.ret = NoId

\* C7: a launch on a fresh adapter has failed on a non-2xx answer whose body
\* nevertheless held a session id.
C7_LaunchRejected ==
    /\ pvLast.op = "launch"
    /\ pvLast.before.instance_id = NoId
    /\ ~pvLast.before.is_running
    /\ ~pvLast.resp.raises
    /\ pvLast.resp.status = 500
    /\ pvLast.resp.id
    /\ pvLast.raised

(***************************************************************************)
(* Provider selection                                                      *)
(***************************************************************************)

C2_AtMostOneOpenSession == Cardinality(unclosed) <= 1

\* Two initialize_environment calls that both read is_initialized = false
\* have both launched.
C2_BothLaunched ==
    /\ Cardinality(unclosed) = 2
    /\ \A c \in Controllers :
          /\ ctl[c].via = "initialize_environment"
          /\ ctl[c].pc = "connect"
          /\ ~ctl[c].saw

(***************************************************************************)
(* C3: initialize_environment takes the launch path exactly when the       *)
(* is_initialized it reads is false; a call that read true constructs and  *)
(* launches no provider, takes the endpoint stored in the context and      *)
(* connects Playwright to it; a launch is issued only by a call that read  *)
(* false.                                                                  *)
(***************************************************************************)
C3_ReuseWithoutLaunch ==
    /\ [](\A c \in Controllers :
            ctl[c].via = "initialize_environment" =>
               /\ ctl[c].pc \in {"construct", "launch"} => ~ctl[c].saw
               /\ ctl[c].pc = "reuse" => ctl[c].saw
               /\ ctl[c].saw => ctl[c].ref = NoRef
               /\ ctl[c].pc = "finish" => ctl[c].tool = ctl[c].cdp_url)
    /\ [][\A c \in Controllers :
            ctl[c].via = "initialize_environment" =>
               /\ ctl[c].pc = "check" /\ ctl'[c].pc # "check" =>
                     /\ ctl'[c].pc = (IF context.is_initialized THEN "reuse" ELSE "construct")
                     /\ ctl'[c].saw = context.is_initialized
               /\ ctl[c].saw /\ ctl'[c] # ctl[c] =>
                     /\ nextSid' = nextSid
                     /\ providers' = providers
               /\ ctl[c].pc = "reuse" /\ ctl'[c].pc = "connect" =>
                     ctl'[c].cdp_url = get_cdp_url(context)
               /\ ctl[c].pc = "launch" /\ ctl'[c].pc # "launch" => ~ctl[c].saw]_vars

\* A controller that found is_initialized set has connected Playwright to
\* the endpoint of the context, and no provider is its own.
C3_Reconnected ==
    \E c \in Controllers :
       /\ ctl[c].via = "initialize_environment"
       /\ ctl[c].pc = "finish"
       /\ ctl[c].saw
       /\ ctl[c].ref = NoRef
       /\ ctl[c].tool # NoId
       /\ ctl[c].tool = get_cdp_url(context)

(***************************************************************************)
(* C8: the attach loop makes at most max_retries = 10 passes and sleeps    *)
(* retry_delay = 1 second after each failed pass but the last; the first   *)
(* pass that succeeds ends it; it raises only when all 10 passes have      *)
(* failed; and it always ends.                                             *)
(***************************************************************************)
C8_BoundedRetry ==
    /\ [](\A c \in Controllers :
            LET l == loops[c] IN
            /\ l.tries <= max_retries
            /\ l.pc # "exhausted"
            /\ l.pc = "loop" =>
                  /\ l.attempt < max_retries
                  /\ l.tries = l.attempt
                  /\ l.slept = l.attempt * retry_delay
                  /\ l.last # "ok"
            /\ l.pc = "connected" =>
                  /\ l.last = "ok"
                  /\ l.slept = (l.tries - 1) * retry_delay
            /\ l.pc = "raised" =>
                  /\ l.last = "failed"
                  /\ l.tries = max_retries
                  /\ l.slept = (max_retries - 1) * retry_delay)
    /\ [][\A c \in Controllers :
            loops[c].pc = "loop" /\ loops'[c] # loops[c] =>
               /\ loops'[c].tries = loops[c].tries + 1
               /\ loops'[c].slept - loops[c].slept \in {0, retry_delay}
               /\ loops'[c].pc = "loop" => loops'[c].slept = loops[c].slept + retry_delay
               /\ loops'[c].pc = "connected" <=> loops'[c].last = "ok"]_vars
    /\ \A c \in Controllers : loops[c].pc = "loop" ~> loops[c].pc \in {"connected", "raised"}

\* All ten passes failed and the last error was re-raised.
C8_RaisedAfterTen ==
    \E c \in Controllers :
       /\ loops[c].pc = "raised"
       /\ loops[c].tries = max_retries
       /\ loops[c].slept = 9

(***************************************************************************)
(* C4: the result of a navigate or click call is attached to the Action    *)
(* Record the call appended, also when a dialog was recorded while the     *)
(* call was in flight: a result is only ever held by a navigate or click   *)
(* record, never by a dialog record.                                       *)
(***************************************************************************)
C4_ResultOnOwnRecord ==
    \A i \in 1..Len(action_history) :
       action_history[i].type = "dialog" => action_history[i].result = NoResult

\* A dialog was recorded while a click was awaiting the browser: the record
\* of the click is no longer the last one.
C4_DialogDuringClick ==
    /\ inflight.op = "click"
    /\ inflight.rec < Len(action_history)
    /\ action_history[Len(action_history)].type = "dialog"

(***************************************************************************)
(* C10: whatever inspection of the browser handle raises, every evaluator  *)
(* returns reward 0.0, success false and an error; no exception leaves it. *)
(***************************************************************************)
C10_RaiseBecomesErrorResult ==
    evOut # NotRun =>
       /\ evOut.ended = "returned"
       /\ evIn.name \in BrowserEvaluators /\ evIn.tool /\ evIn.page
             /\ FirstInspection(evIn.name) \in evIn.raises =>
                evOut = ErrorResult

\* url_match was called with a page whose URL cannot be read.
C10_UrlReadRaised ==
    /\ evIn.name = "url_match"
    /\ evIn.tool /\ evIn.page
    /\ evIn.raises = {"url"}
    /\ evOut = Propagated

(***************************************************************************)
(* C11 as stated: when shutdown_environment of env.py returns with a       *)
(* context attached, or POST /shutdown has been served, the context is not *)
(* initialized, holds no control endpoint and its telemetry does not       *)
(* report "running", so that the next initialize takes the launch path.    *)
(***************************************************************************)
C11_ShutdownResetsContext ==
    [][\A c \in Controllers :
          \/ deploy = "env.py" /\ ctl[c].pc = "shutdown" /\ ctl'[c].pc = "idle"
                /\ ctl[c].attached
          \/ deploy = "main.py" /\ ctl[c].pc \in {"ready", "failed"} /\ ctl'[c].pc = "idle"
                /\ context' # context
          => /\ ~context'.is_initialized
             /\ NeedsLaunch(context'.is_initialized)
             /\ get_cdp_url(context') = NoId
             /\ get_telemetry(context').status # "running"]_vars

\* C11: env.py has shut down the only session (every controller is back at
\* rest, the session is closed), and the context still holds the endpoint of
\* the closed session and telemetry with status "running".
C11_ClosedEndpointKept ==
    /\ deploy = "env.py"
    /\ \A c \in Controllers : ctl[c].pc = "idle"
    /\ \E c \in Controllers : ctl[c].attached
    /\ ~context.is_initialized
    /\ unclosed = {}
    /\ get_cdp_url(context) # NoId
    /\ get_telemetry(context).status = "running"
    /\ providers[context.browser_provider].instance_id = NoId

(***************************************************************************)
(* C12: shutdown_environment never raises: from a controller that is ready *)
(* or whose initialization failed it runs to its end, whether closing the  *)
(* tool, closing the provider or POST /shutdown failed, and when it        *)
(* returns playwright_tool and browser_executor (and in main.py            *)
(* http_client) are cleared.                                               *)
(***************************************************************************)
C12_ShutdownAlwaysClears ==
    [][\A c \in Controllers :
          /\ deploy = "env.py" /\ ctl[c].pc \in {"ready", "failed"} /\ ctl'[c] # ctl[c] =>
                ctl'[c].pc = "shutdown"
          /\ deploy = "env.py" /\ ctl[c].pc = "shutdown" /\ ctl'[c] # ctl[c] =>
                /\ ctl'[c].pc = "idle"
                /\ ctl'[c].tool = NoId
                /\ ctl'[c].attached = ctl[c].attached
          /\ deploy = "main.py" /\ ctl[c].pc \in {"ready", "failed"} /\ ctl'[c] # ctl[c] =>
                /\ ctl'[c].pc = "idle"
                /\ ctl'[c].tool = NoId
                /\ ~ctl'[c].attached]_vars

\* C12: main.py's shutdown_environment has returned although POST /shutdown
\* did not get through: the session is still open and the context still
\* initialized, and the globals of every controller are cleared.
C12_ReturnedAfterFailedPost ==
    /\ deploy = "main.py"
    /\ \A c \in Controllers : ctl[c] = IdleController
    /\ context.is_initialized
    /\ unclosed # {}

(***************************************************************************)
(* C13 as stated: every navigate, click and type call on the tool appends  *)
(* exactly one Action Record of its own kind, which carries the argument   *)
(* of the call; a type call leaves a record of type "type".                *)
(***************************************************************************)
C13_EveryCallRecorded ==
    [][inflight.op = "none" /\ inflight'.op \in {"navigate", "click", "type"} =>
          /\ Len(action_history') = Len(action_history) + 1
          /\ action_history'[Len(action_history')].type = inflight'.op
          /\ action_history'[Len(action_history')].details = inflight'.arg]_vars

\* C13: a type call is awaiting the browser and the history holds no record
\* of type "type".
C13_TypeNotRecorded ==
    /\ inflight.op = "type"
    /\ \A i \in 1..Len(action_history) : action_history[i].type # "type"

(***************************************************************************)
(* C14: every navigate or click call appends exactly one record of its     *)
(* kind at the end of action_history; its completion, with success, with   *)
(* failure or with an exception, appends and removes nothing; no step      *)
(* changes the kind, the details or the position of a record; and only     *)
(* dialog events append anything else.  So without dialog events N         *)
(* navigate and M click calls leave N+M records in call order, the last    *)
(* one of the kind of the last call.                                       *)
(***************************************************************************)
C14_OneRecordPerCall ==
    [][LET grew == Len(action_history') - Len(action_history)
           called == inflight.op = "none" /\ inflight'.op \in {"navigate", "click"}
       IN /\ grew >= 0
          /\ \A i \in 1..Len(action_history) :
                /\ action_history'[i].type = action_history[i].type
                /\ action_history'[i].details = action_history[i].details
          /\ called =>
                /\ grew = 1
                /\ action_history'[Len(action_history')].type = inflight'.op
                /\ action_history'[Len(action_history')].details = inflight'.arg
                /\ action_history'[Len(action_history')].result = NoResult
          /\ inflight.op \in {"navigate", "click"} /\ inflight'.op = "none" => grew = 0
          /\ ~called =>
                \A i \in (Len(action_history) + 1)..Len(action_history') :
                   action_history'[i].type = "dialog"]_vars

\* C14: two calls were made and no dialog was raised; the first call ended
\* with an exception, the second was a navigate and is the last record.
C14_AfterRaisedCall ==
    /\ inflight = NoFlight
    /\ Len(action_history) = 2
    /\ action_history[1].type = "click"
    /\ action_history[1].result = NoResult
    /\ action_history[2].type = "navigate"
    /\ action_history[2].result = "failure"

(***************************************************************************)
(* C15: navigate appends one entry to navigation_history exactly when the  *)
(* underlying operation reports success, none when it reports failure or   *)
(* raises; click appends its selector to selector_history on every call,   *)
(* whatever the outcome of the click; selector_history is always the       *)
(* sequence of the selectors of the click records of action_history.       *)
(***************************************************************************)
C15_SideHistories ==
    /\ [](LET clicks == SelectSeq(action_history, LAMBDA r : r.type = "click")
          IN selector_history = [i \in 1..Len(clicks) |-> clicks[i].details])
    /\ [][LET returned == inflight.op = "navigate" /\ inflight'.op = "none"
              last == action_history'[Len(action_history')]
          IN /\ returned /\ action_history' = action_history =>
                   navigation_history' = navigation_history
             /\ returned /\ action_history' # action_history =>
                   /\ last.result \in ToolResults
                   /\ last.result = "success" =>
                         navigation_history' = Append(navigation_history, inflight.arg)
                   /\ last.result = "failure" => navigation_history' = navigation_history
             /\ ~returned => navigation_history' = navigation_history
             /\ inflight.op = "none" /\ inflight'.op = "click" =>
                   selector_history' = Append(selector_history, inflight'.arg)
             /\ inflight.op = "click" /\ inflight'.op = "none" =>
                   selector_history' = selector_history]_vars

\* C15: a click and a navigate have both reported failure: the selector is
\* in selector_history, navigation_history is empty.
C15_FailedClickAndNavigate ==
    /\ inflight = NoFlight
    /\ Len(action_history) = 2
    /\ action_history[1].type = "click" /\ action_history[1].result = "failure"
    /\ action_history[2].type = "navigate" /\ action_history[2].result = "failure"
    /\ selector_history = <<action_history[1].details>>
    /\ navigation_history = <<>>

C17_EvaluatorsReadOnly ==
    [][inflight.op = "evaluate" \/ inflight'.op = "evaluate" =>
          /\ inflight.op = "none" => inflight'.arg \in BrowserEvaluators \cup HistoryEvaluators
          /\ inflight.op # inflight'.op =>
                /\ action_history' = action_history
                /\ navigation_history' = navigation_history
                /\ selector_history' = selector_history]_vars

\* C17: sheets_cell_values is running on a tool that has recorded a click
\* and a navigation.
C17_SheetEvaluatorRunning ==
    /\ inflight.op = "evaluate"
    /\ inflight.arg = "sheets_cell_values"
    /\ selector_history # <<>>
    /\ navigation_history # <<>>
    /\ Len(action_history) >= 2

\* C18: selector_history returns, never raises; with a tool it returns the
\* failure result (reward 0.0, success false, error) for an index that is
\* negative or not below the length of selector_history, and for an index in
\* range reward 1.0 and success when the selector there equals the expected
\* one, reward 0.0 and no success otherwise.
C18_IndexChecked ==
    (evIn.name = "selector_history" /\ evOut # NotRun) =>
        /\ evOut.ended = "returned"
        /\ evIn.tool =>
            IF evIn.index < 0 \/ evIn.index >= Len(evIn.selector_history)
            THEN evOut = ErrorResult
            ELSE /\ ~evOut.error
                 /\ evOut.success = (evIn.selector_history[evIn.index + 1] = evIn.expected)
                 /\ evOut.reward = IF evOut.success THEN 100 ELSE 0

\* C18: the evaluator has answered a negative index into a history that has
\* entries.
C18_NegativeIndexRefused ==
    /\ evIn.name = "selector_history"
    /\ evIn.tool
    /\ evIn.index < 0
    /\ Len(evIn.selector_history) = MaxHistory
    /\ evIn.selector_history[MaxHistory] = evIn.expected
    /\ evOut = ErrorResult

\* C19 as stated: when sheets_cell_values has read the sheet, a malformed
\* cell reference among its cell_values does not abort the evaluation: it
\* returns a result without an error in which every malformed reference is
\* among the mismatches, matching_cells + len(mismatches) = total_cells, and
\* the reward is matching_cells / total_cells with partial rewarding and
\* otherwise 1.0 only when all cells match.
C19_MalformedCellIsOneMismatch ==
    (/\ evIn.name = "sheets_cell_values"
     /\ evOut # NotRun
     /\ evIn.raises = {}
     /\ evIn.on_sheet
     /\ evIn.cell_values # <<>>) =>
        /\ evOut.ended = "returned"
        /\ ~evOut.error
        /\ evOut.total_cells = Len(evIn.cell_values)
        /\ evOut.matching_cells + Len(evOut.mismatches) = evOut.total_cells
        /\ \A k \in 1..Len(evIn.cell_values) :
               ~WellFormed(evIn.cell_values[k].cell) =>
                   \E j \in 1..Len(evOut.mismatches) :
                       evOut.mismatches[j] = evIn.cell_values[k].cell
        /\ evOut.reward = IF evIn.partial_rewarding
                          THEN Share(evOut.matching_cells, evOut.total_cells)
                          ELSE IF evOut.matching_cells = evOut.total_cells THEN 100 ELSE 0

\* C19: the sheet was read, A1 holds the expected value and the other key is
\* A followed by SUPERSCRIPT TWO; the evaluation has ended with the error
\* result.
C19_AbortedOnSuperscriptRow ==
    /\ evIn.name = "sheets_cell_values"
    /\ evIn.raises = {}
    /\ evIn.on_sheet
    /\ evIn.rows = <<<<"x ", "y">>, <<"z">>>>
    /\ evIn.cell_values = <<[cell |-> <<"A", "1">>, expected |-> "x"],
                            [cell |-> <<"A", SuperscriptTwo>>, expected |-> "x"]>>
    /\ evOut = ErrorResult

\* C20 as stated: every reward a scenario yields lies in [0.0, 1.0], and the
\* reward arithmetic of no run fails, whatever max_clicks and click count
\* wiki-speedrun is given, and whatever the evaluators a scenario calls
\* return.
C20_RewardInUnitInterval ==
    /\ scReward.kind # "ZeroDivisionError"
    /\ scReward.amount \in 0..100

\* C20: wiki-speedrun with max_clicks = 0 has ended on the target article
\* after page.evaluate raised, with no reward yielded.
C20_ZeroMaxClicksRaised ==
    /\ scIn.name = "wiki-speedrun"
    /\ scIn.reached
    /\ scIn.max_clicks = 0
    /\ scIn.history_length = <<>>
    /\ scPc = "raised"
    /\ scYields = <<Prompt>>
    /\ scReward = ZeroDivisionError

\* Every reward an evaluator returns lies in [0.0, 1.0]: history_length with
\* any min_length and max_length, given or not, zero or negative, and every
\* other evaluator on every input.
EvaluatorRewardInUnitInterval ==
    evOut.reward \in 0..100

\* C21: when launch is given neither advancedStealth nor a viewport, the
\* viewport of the request is one of the five supported sizes and no
\* supported size is nearer to DISPLAY_WIDTH x DISPLAY_HEIGHT in the sum of
\* the absolute width and height differences; 1300 x 700 gives 1280 x 720.
C21_NearestSupportedViewport ==
    /\ closest(1300, 700) = <<1280, 720>>
    /\ (/\ vpOut # NoViewport
        /\ ~vpIn.advancedStealth
        /\ vpIn.viewport = NoViewport
        /\ vpIn.settings_viewport = NoViewport) =>
           /\ \E k \in 1..Len(supported_viewports) : supported_viewports[k] = vpOut
           /\ \A k \in 1..Len(supported_viewports) :
                  Abs(vpOut[1] - vpIn.size[1]) + Abs(vpOut[2] - vpIn.size[2])
                      <= Abs(supported_viewports[k][1] - vpIn.size[1])
                         + Abs(supported_viewports[k][2] - vpIn.size[2])

\* C21: 1451 x 720, which is as near in width to 1536 as to 1366, was
\* requested without advancedStealth or a viewport, and 1366 x 768 is sent.
C21_SentForWidthTie ==
    /\ vpIn.size = <<1451, 720>>
    /\ ~vpIn.advancedStealth
    /\ vpIn.viewport = NoViewport
    /\ vpIn.settings_viewport = NoViewport
    /\ vpOut = <<1366, 768>>

\* The column letters of a zero-based column index, by base-26 arithmetic
\* with digits A = 1 .. Z = 26.
RECURSIVE index_to_letters(_)
index_to_letters(n) ==
    IF n < 26 THEN <<Alphabet[n + 1]>>
    ELSE index_to_letters((n \div 26) - 1) \o <<Alphabet[(n % 26) + 1]>>

\* C22: A1 gives row 0, column 0; B2 gives (1, 1); AA1 gives (0, 26); AZ1
\* gives (0, 51); and for every reference made of upper-case column letters
\* and a row number from 1 on, the call returns a cell whose row index is
\* the row number less one and whose column index, turned back into letters,
\* gives the column letters of the reference.
C22_ColumnRoundTrip ==
    /\ LET at(cell_ref) == <<parse_cell_reference(cell_ref).row_num,
                             parse_cell_reference(cell_ref).col_num>>
       IN /\ at(<<"A", "1">>) = <<0, 0>>
          /\ at(<<"B", "2">>) = <<1, 1>>
          /\ at(<<"A", "A", "1">>) = <<0, 26>>
          /\ at(<<"A", "Z", "1">>) = <<0, 51>>
    /\ (/\ prIn.called
        /\ prOut # NotParsed
        /\ \E i \in 1..(Len(prIn.cell_ref) - 1) :
               /\ \A k \in 1..i : prIn.cell_ref[k] \in Letters
               /\ \A k \in (i + 1)..Len(prIn.cell_ref) : prIn.cell_ref[k] \in DecimalDigits
               /\ prIn.cell_ref[i + 1] # "0") =>
           /\ prOut.kind = "cell"
           /\ LET col == index_to_letters(prOut.col_num) IN
                 /\ prOut.col_letters = col
                 /\ Len(col) < Len(prIn.cell_ref)
                 /\ SubSeq(prIn.cell_ref, 1, Len(col)) = col
                 /\ prIn.cell_ref[Len(col) + 1] \in DecimalDigits
                 /\ prOut.row_num
                        = int(SubSeq(prIn.cell_ref, Len(col) + 1, Len(prIn.cell_ref))) - 1

\* C22: ZZ999 has been parsed to row 998, column 701.
C22_ParsedLastColumn ==
    /\ prIn.cell_ref = <<"Z", "Z", "9", "9", "9">>
    /\ prOut.kind = "cell"
    /\ prOut.row_num = 998
    /\ prOut.col_num = 701

\* C23 as stated: for every reference that is not letters followed by
\* decimal digits, parse_cell_reference returns None and does not raise.
C23_MalformedGivesNone ==
    (prIn.called /\ prOut # NotParsed /\ ~WellFormed(prIn.cell_ref)) =>
        prOut.kind = "None"

\* C23: the reference A followed by SUPERSCRIPT TWO was given and the call
\* raised ValueError.
C23_RaisedOnSuperscriptRow ==
    /\ prIn.cell_ref = <<"A", SuperscriptTwo>>
    /\ prOut.kind = "ValueError"

\* C30 as stated: whenever parse_cell_reference returns a cell, its row
\* index and its column index are not negative.
C30_IndicesNotNegative ==
    prOut.kind = "cell" => prOut.row_num >= 0 /\ prOut.col_num >= 0

\* C30: A0 was given and a cell with row index -1 was returned.
C30_RowZeroParsed ==
    /\ prIn.cell_ref = <<"A", "0">>
    /\ prOut.kind = "cell"
    /\ prOut.row_num = 0 - 1
    /\ prOut.col_num = 0

\* The number of the search terms of the call that occur in the text it read:
\* as written for page_contains, whatever their case for sheet_contains.
TermsPresent ==
    Cardinality({k \in 1..Len(evIn.search_terms) :
        IF evIn.name = "page_contains"
        THEN evIn.search_terms[k] \in evIn.content
        ELSE \E word \in evIn.content : lower(word) = lower(evIn.search_terms[k])})

\* C24: a containment evaluation that read its text and had at least one term
\* returns, in partial-credit mode, the share of the terms that are present
\* (one of two is exactly 0.5), and in all-or-nothing mode 1.0 when every term
\* is present and 0.0 otherwise; a term is present in a page when it occurs
\* as written, and in a sheet when it occurs in any case.
C24_RewardIsShareOfTermsFound ==
    (/\ evIn.name \in {"page_contains", "sheet_contains"}
     /\ evOut # NotRun
     /\ evOut.ended = "returned"
     /\ ~evOut.error
     /\ evIn.search_terms # <<>>) =>
        /\ evIn.partial_rewarding =>
               /\ evOut.reward * Len(evIn.search_terms) <= 100 * TermsPresent
               /\ 100 * TermsPresent < (evOut.reward + 1) * Len(evIn.search_terms)
               /\ (Len(evIn.search_terms) = 2 /\ TermsPresent = 1) => evOut.reward = 50
        /\ ~evIn.partial_rewarding =>
               evOut.reward = IF TermsPresent = Len(evIn.search_terms) THEN 100 ELSE 0

\* C24: page_contains in partial-credit mode looked for "Total" and "total" in
\* a page that holds only "Total", and returned 0.5.
C24_HalfForOneOfTwo ==
    /\ evIn.name = "page_contains"
    /\ evIn.partial_rewarding
    /\ evIn.search_terms = <<"Total", "total">>
    /\ evIn.content = {"Total"}
    /\ evOut.ended = "returned"
    /\ ~evOut.error
    /\ evOut.reward = 50

IsPrefix(s, t) ==
    /\ Len(s) <= Len(t)
    /\ \A i \in 1..Len(s) : s[i] = t[i]

\* C25: every step of the tool (a wrapper operation at either end, a dialog,
\* a setup helper, an evaluator) leaves each of the three histories as a
\* prefix of what it becomes; the type and details of a record already in
\* action_history stay as they are, and its result changes only from None to
\* the result written.
C25_HistoriesAppendOnly ==
    [][/\ IsPrefix(navigation_history, navigation_history')
       /\ IsPrefix(selector_history, selector_history')
       /\ Len(action_history) <= Len(action_history')
       /\ \A i \in 1..Len(action_history) :
              /\ action_history'[i].type = action_history[i].type
              /\ action_history'[i].details = action_history[i].details
              /\ action_history[i].result # NoResult =>
                     action_history'[i].result = action_history[i].result]_vars

\* C25: a dialog came up while a navigation awaited the browser, the
\* navigation succeeded and its result was written; both records are in
\* place, and a click and load_html_content have followed.
C25_GrownThroughDialogAndSetup ==
    /\ Len(action_history) = 3
    /\ action_history[1].type = "navigate"
    /\ action_history[2] = ActionRecord("dialog", "alert", "success")
    /\ action_history[3].type = "click"
    /\ Len(navigation_history) = 1
    /\ Len(selector_history) = 1
    /\ page = "data:text/html"

\* C26 as stated: whatever launches (succeeding or failing at any step, on an
\* adapter at rest or on a running one) and closes have been made, an adapter
\* marked running holds both its instance id and its control endpoint.
C26_RunningHoldsIdAndEndpoint ==
    prov.is_running => prov.instance_id # NoId /\ prov.cdp_url # NoId

\* C26: launch was called on a running adapter whose session the vendor still
\* holds, the create-session answer had no "id", and launch raised; the
\* adapter is marked running and holds no instance id, so close() returns
\* without a request.
C26_RunningWithoutId ==
    /\ pvLast.op = "launch"
    /\ pvLast.raised
    /\ pvLast.before.is_running
    /\ pvLast.before.instance_id \in vendorLive
    /\ prov.is_running
    /\ prov.instance_id = NoId
    /\ Provider_close(prov, NetworkError).sent = FALSE

\* C27 as stated: when a shutdown completes (shutdown_environment of env.py
\* leaves its last step, or that of main.py returns), every session a launch
\* created has received a terminate request, also when an initialization
\* failed after its launch and a later one launched again.
C27_AllLaunchedClosedAtShutdown ==
    [][(\E c \in Controllers :
           /\ \/ ctl[c].pc = "shutdown"
              \/ deploy = "main.py" /\ ctl[c].pc \in {"ready", "failed"}
           /\ ctl'[c].pc = "idle") => unclosed' = {}]_vars

\* C27: env.py, one controller alone (the other never attached): its first
\* initialization launched session 1 and failed afterwards, its second
\* launched session 2 through a new provider, and its shutdown has closed
\* that provider; the first adapter still holds session 1, for which no
\* terminate request was made and which the vendor still runs.
C27_FirstSessionLeftOpen ==
    /\ deploy = "env.py"
    /\ ctl["c1"].pc = "idle" /\ ctl["c1"].attached
    /\ ctl["c2"] = IdleController
    /\ context.browser_provider = 2
    /\ ~context.is_initialized
    /\ providers[1].is_running /\ providers[1].instance_id = 1
    /\ providers[2].constructed /\ providers[2].instance_id = NoId
    /\ nextSid = 3
    /\ unclosed = {1}
    /\ 1 \in vendorLive

\* The step in which controller c, on the reuse path, asks the context for
\* the control endpoint (get_cdp_url() / GET /cdp_url).
ReadsEndpoint(c) == ctl[c].pc = "reuse" /\ ctl'[c].pc # "reuse"

\* Whenever the context is initialized it stores a control endpoint.
InitializedHoldsEndpoint == context.is_initialized => get_cdp_url(context) # NoId

\* C28 as stated: in every state reachable through initialize (succeeding or
\* failing at any step) and shutdown, an initialized context stores a
\* non-empty control endpoint, and no initialization on the reuse path fails
\* for want of one.
C28_ReuseNeverMissesEndpoint ==
    /\ []InitializedHoldsEndpoint
    /\ [][\A c \in Controllers : ReadsEndpoint(c) => ctl'[c].pc # "failed"]_vars

\* C28 as amended: an initialized context always stores a non-empty control
\* endpoint; an initialization on the reuse path that reads the endpoint
\* while the context is initialized gets it, and one that finds none runs
\* against the environment server after a shutdown reset the context between
\* its GET /state and its GET /cdp_url.
C28_InitializedHoldsEndpoint ==
    /\ []InitializedHoldsEndpoint
    /\ [][\A c \in Controllers : ReadsEndpoint(c) =>
              /\ context.is_initialized =>
                     ctl'[c].pc = "connect" /\ ctl'[c].cdp_url = get_cdp_url(context)
              /\ ctl'[c].pc = "failed" =>
                     deploy = "main.py" /\ ctl[c].saw /\ ~context.is_initialized]_vars

\* C28: one initialization has failed, the context is initialized, and
\* another initialization, which read is_initialized true, has taken the
\* stored endpoint and is about to connect to it.
C28_ReusedStoredEndpoint ==
    /\ context.is_initialized
    /\ ctl["c1"].pc = "connect" /\ ctl["c1"].saw
    /\ ctl["c1"].cdp_url = get_cdp_url(context)
    /\ ctl["c1"].cdp_url # NoId
    /\ ctl["c2"].pc = "failed"

\* The step in which controller c runs the second half of env.py's
\* shutdown_environment (provider close, set_initialized(False), finally).
SecondHalf(c) == deploy = "env.py" /\ ctl[c].pc = "shutdown" /\ ctl'[c].pc = "idle"

\* C29 as stated: in shutdown_environment of env.py the tool is closed before
\* the provider's close is invoked, the provider's close is still invoked
\* when the tool's close raised, and the provider is never closed while the
\* tool is still connected.
C29_ProviderClosedAfterToolDisconnected ==
    [][\A c \in Controllers : SecondHalf(c) => ctl[c].tool = NoId]_vars

\* C29 as amended: the second half of shutdown_environment runs only after
\* playwright_tool.close() has been called; the tool is then disconnected
\* unless that call raised; and whether it raised or not, a second half that
\* resets is_initialized has called close() on the provider of the context,
\* which afterwards holds no session.
C29_ProviderClosedAfterToolCloseTried ==
    [][\A c \in Controllers :
          /\ (deploy = "env.py" /\ ctl'[c].pc = "idle" /\ ctl[c].pc # "idle") =>
                 ctl[c].pc = "shutdown"
          /\ SecondHalf(c) =>
                 /\ ctl[c].tool # NoId => ctl[c].tool_error
                 /\ (context.is_initialized /\ ~context'.is_initialized
                        /\ context.browser_provider # NoRef) =>
                       LET provider == providers'[context.browser_provider]
                       IN ~provider.is_running \/ provider.instance_id = NoId]_vars

\* C29: playwright_tool.close() raised and left the tool connected to the
\* session the provider of the context runs; the second half of the shutdown
\* is about to close that provider.
C29_ToolCloseRaised ==
    /\ deploy = "env.py"
    /\ ctl["c1"].pc = "shutdown"
    /\ ctl["c1"].tool_error
    /\ ctl["c1"].attached
    /\ context.browser_provider # NoRef
    /\ ctl["c1"].tool # NoId
    /\ ctl["c1"].tool = providers[context.browser_provider].instance_id
    /\ providers[context.browser_provider].is_running

====
